---- MODULE Spec2Model ----
(***************************************************************************)
(* Subscription lifecycle and payment verification of the FXWave VIP bot   *)
(* (src/server.js): /start, the pay_ callback (handlePayment), the hash    *)
(* message handler with its delayed callback (processTransaction) and the  *)
(* channel admission.  Every store access of processTransaction is a step  *)
(* of its own, so delayed callbacks of any users interleave with each      *)
(* other and with the foreground handlers.  The expiry sweeper of the same  *)
(* file and the message handler of the revision src/unnamed/part_001 (on-   *)
(* chain check for TON, operator review otherwise) have sections of their   *)
(* own, with the specifications SpecSweep and SpecP1.                       *)
(*                                                                         *)
(* Optional values (a missing document, an unset field, JS undefined) are  *)
(* sequences of length 0 or 1.  Texts are sequences of one-character       *)
(* strings.  Time is counted in months.                                    *)
(***************************************************************************)
EXTENDS Integers, Sequences, FiniteSets, TLC

\* env:        the wallet addresses the deployment sets
\* now:        the clock
\* users:      the collection of User documents
\* timers:     the delayed callbacks of the hash submissions
\* paymentIds: the payment ids generated so far
\* sweep:      the run of the expiry sweeper
\* overlap:    a second run of the sweeper, begun before the first is over
\* banned:     the users the channel has banned
\* submitted:  for each delayed callback, the pendingPayment its user had on file when
\*             the hash was sent; the program keeps no such thing, the variable is
\*             history for the properties of the timer
\* retry:      a call of retryOperation taken by itself: the operation it was given
\*             and where its loop is
\* last:       what the step just taken answered and called
VARIABLES env, now, users, timers, paymentIds, sweep, overlap, banned, submitted, retry,
          last

vars == <<env, now, users, timers, paymentIds, sweep, overlap, banned, submitted, retry,
         last>>

-----------------------------------------------------------------------------
(* Bounds of the model *)

MaxNow == 1
MaxPayments == 2

\* The clock of the runs with the sweeper: a subscription of one month taken at 0 is
\* past its expiry at 2.
MaxClock == 2

Users == {1, 2}

\* The delayed callbacks of a run: two, the least number that can overlap.
TimerIds == {1, 2}

-----------------------------------------------------------------------------
(* CONFIG *)

TX_HASH_LENGTH == 64
MAX_RETRIES == 3

PRICES ==
  ("USDT" :> (("1month" :> 24) @@ ("3months" :> 55))) @@
  ("TON" :> (("1month" :> 11) @@ ("3months" :> 25)))

\* Names every JS object literal inherits from Object.prototype: CONFIG.PRICES[name]
\* is defined (a function) for them although PRICES has no such own key.
ObjectPrototype == {"constructor", "toString", "valueOf", "hasOwnProperty"}

-----------------------------------------------------------------------------
(* Texts *)

HexDigits ==
  {"0", "1", "2", "3", "4", "5", "6", "7", "8", "9",
   "a", "b", "c", "d", "e", "f", "A", "B", "C", "D", "E", "F"}

Whitespace == {" ", "\t", "\n"}

Fill(c, n) == [i \in 1..n |-> c]

HashA == Fill("a", TX_HASH_LENGTH)
HashB == [i \in 1..TX_HASH_LENGTH |-> IF i % 2 = 1 THEN "F" ELSE "0"]

\* What a chat message may carry; <<>> is a message without text.
Texts ==
  { HashA,
    HashB,
    <<" ">> \o HashA \o <<"\n">>,
    Fill("a", TX_HASH_LENGTH - 1),
    Fill("a", TX_HASH_LENGTH + 1),
    Fill("a", TX_HASH_LENGTH - 1) \o <<"g">>,
    <<"/">> \o Fill("a", TX_HASH_LENGTH - 1),
    <<"a", " ">> \o Fill("a", TX_HASH_LENGTH - 2),
    <<>> }

RECURSIVE trimStart(_)
trimStart(s) ==
  IF s # <<>> /\ Head(s) \in Whitespace THEN trimStart(Tail(s)) ELSE s

RECURSIVE trimEnd(_)
trimEnd(s) ==
  IF s # <<>> /\ s[Len(s)] \in Whitespace
    THEN trimEnd(SubSeq(s, 1, Len(s) - 1))
    ELSE s

trim(s) == trimEnd(trimStart(s))

startsWithSlash(s) == s # <<>> /\ Head(s) = "/"

\* The pattern without the length test.
validateTxHashAnyLength(hash) ==
  /\ hash # <<>>
  /\ \A i \in 1..Len(hash) : hash[i] \in HexDigits

validateTxHash(hash) ==
  /\ hash # <<>>
  /\ Len(hash) = TX_HASH_LENGTH
  /\ \A i \in 1..Len(hash) : hash[i] \in HexDigits

-----------------------------------------------------------------------------
(* Pure helpers of server.js *)

\* One month whatever the plan.
calculateExpiryOneMonth(plan, date) == date + 1

calculateExpiry(plan, date) == date + (IF plan = "1month" THEN 1 ELSE 3)

\* retryOperation with an operation that fails `failures` times in a row before it
\* succeeds: the number of calls made and whether the last error is rethrown.
retryOperation(failures, maxRetries) ==
  IF failures >= maxRetries
    THEN [calls |-> maxRetries, threw |-> TRUE]
    ELSE [calls |-> failures + 1, threw |-> FALSE]

\* How many calls in a row fail for a store operation: none, or all of them.
Failures == {0, MAX_RETRIES}

\* The same for the store operations of processTransaction, with a single failure.
TransactionFailures == {0, 1, MAX_RETRIES}

\* const wallet = currency === 'TON' ? TON_WALLET_ADDRESS : USDT_WALLET_ADDRESS
walletFor(currency) == IF currency = "TON" THEN env.TON ELSE env.USDT

\* const amount = CONFIG.PRICES[currency][plan]
priceLookup(currency, plan) ==
  IF currency \in DOMAIN PRICES
    THEN [threw |-> FALSE,
          amount |-> IF plan \in DOMAIN PRICES[currency]
                       THEN <<PRICES[currency][plan]>> ELSE <<>>]
    ELSE IF currency \in ObjectPrototype
      THEN [threw |-> FALSE, amount |-> <<>>]
      ELSE [threw |-> TRUE, amount |-> <<>>]

-----------------------------------------------------------------------------
(* The store *)

\* A document created by the /start upsert with the schema defaults.
NewUser == [subscription |-> "none", expiresAt |-> <<>>,
            pendingPayment |-> <<>>, transactions |-> <<>>]

\* User.findOne({ userId })
findOne(userId) == users[userId]

\* if (!user || !user.pendingPayment)
hasPendingPaymentUserOnly(user) == user # <<>>

hasPendingPayment(user) == user # <<>> /\ user[1].pendingPayment # <<>>

\* A lookup on a path no record has.
findByHashWrongPath(txHash) == {u \in Users : FALSE}

\* User.findOne({ 'transactions.hash': txHash })
findByHash(txHash) ==
  {u \in Users : /\ users[u] # <<>>
                 /\ \E i \in 1..Len(users[u][1].transactions) :
                       users[u][1].transactions[i].hash = txHash}

\* A $set of the fields one by one, which keeps the paymentId of an attempt on file.
setPendingPaymentFields(doc, pending) ==
  IF doc.pendingPayment = <<>>
    THEN [doc EXCEPT !.pendingPayment = <<pending>>]
    ELSE [doc EXCEPT !.pendingPayment =
            <<[pending EXCEPT !.paymentId = doc.pendingPayment[1].paymentId]>>]

\* $set: { pendingPayment: {...} }
setPendingPayment(doc, pending) == [doc EXCEPT !.pendingPayment = <<pending>>]

\* The activation write without the $unset.
activationUpdateKeepsPending(doc, plan, expiresAt, tx) ==
  [doc EXCEPT !.subscription = plan,
              !.expiresAt = <<expiresAt>>,
              !.transactions = Append(@, tx)]

\* An activation that sets the transactions to the record of the payment ($set in
\* the place of $push).
activationUpdateSetsTransactions(doc, plan, expiresAt, tx) ==
  [doc EXCEPT !.subscription = plan,
              !.expiresAt = <<expiresAt>>,
              !.pendingPayment = <<>>,
              !.transactions = <<tx>>]

\* { subscription, expiresAt, $unset: { pendingPayment }, $push: { transactions } }
activationUpdate(doc, plan, expiresAt, tx) ==
  [doc EXCEPT !.subscription = plan,
              !.expiresAt = <<expiresAt>>,
              !.pendingPayment = <<>>,
              !.transactions = Append(@, tx)]

\* findOneAndUpdate without upsert: a filter that matches no document writes nothing.
findOneAndUpdate(userId, update(_)) ==
  IF users[userId] = <<>>
    THEN users
    ELSE [users EXCEPT ![userId] = <<update(users[userId][1])>>]

\* findOneAndUpdate with upsert and setDefaultsOnInsert.
upsert(userId) ==
  IF users[userId] = <<>> THEN [users EXCEPT ![userId] = <<NewUser>>] ELSE users

-----------------------------------------------------------------------------
(* Observation of the step just taken *)

Step(op, user, outcome, sent, admit) ==
  [outcome |-> outcome, sent |-> sent, admit |-> admit, notice |-> <<>>,
   revoke |-> <<>>, status |-> <<>>, already |-> FALSE]

\* A delayed callback that was not scheduled yet, and one that is over.
Unused == [pc |-> "unused", chatId |-> 0, txHash |-> <<>>, pendingPayment |-> <<>>]
Over == [Unused EXCEPT !.pc = "over"]

-----------------------------------------------------------------------------

\* The expiry sweeper between two runs, and in a run with the users it selected left
\* to process.
Idle == [pc |-> "idle", expiredUsers |-> <<>>]

\* The deployments: which of the wallet addresses the environment sets.
Environments == [TON : BOOLEAN, USDT : BOOLEAN]

\* CONFIG.RETRY_DELAY, in milliseconds.
RETRY_DELAY == 2000

\* The most calls of an operation that a run looks at.
MaxTries == 4

\* No call of retryOperation is looked at by itself.
NoRetry ==
  [pc |-> "idle", outcomes |-> <<>>, maxRetries |-> 0, attempt |-> 0, calls |-> 0,
   waited |-> <<>>, result |-> <<>>]

\* The operations given to retryOperation: outcomes[k] tells whether the k-th call of
\* the operation resolves (with the value k) or throws (the error k).
Operations == [1..MaxTries -> BOOLEAN]

\* retryOperation(operation, operationName, maxRetries) at its first line.
RetryInputs ==
  {[pc |-> "loop", outcomes |-> operation, maxRetries |-> maxRetries, attempt |-> 1,
    calls |-> 0, waited |-> <<>>, result |-> <<>>] :
     operation \in Operations, maxRetries \in 0..MaxTries}

InitWith(environments) ==
  /\ env \in environments
  /\ now = 0
  /\ users = [u \in Users |-> <<>>]
  /\ timers = [t \in TimerIds |-> Unused]
  /\ paymentIds = 0
  /\ sweep = Idle
  /\ overlap = Idle
  /\ banned = {}
  /\ submitted = [t \in TimerIds |-> <<>>]
  /\ retry = NoRetry
  /\ last = Step("init", 0, "", <<>>, FALSE)

\* Both wallets configured.
Init == InitWith({[TON |-> TRUE, USDT |-> TRUE]})

\* Any deployment.
InitWide == InitWith(Environments)

\* A call of retryOperation with any operation and any maxRetries.
InitRetry ==
  /\ env = [TON |-> TRUE, USDT |-> TRUE]
  /\ now = 0
  /\ users = [u \in Users |-> <<>>]
  /\ timers = [t \in TimerIds |-> Unused]
  /\ paymentIds = 0
  /\ sweep = Idle
  /\ overlap = Idle
  /\ banned = {}
  /\ submitted = [t \in TimerIds |-> <<>>]
  /\ retry \in RetryInputs
  /\ last = Step("init", 0, "", <<>>, FALSE)

\* One pass of the for loop that forgets the test attempt === maxRetries: the last
\* failure waits like the others and the loop ends without a throw.
RetryAttemptSwallows ==
  LET k == retry.calls + 1 IN
  /\ retry.pc = "loop"
  /\ UNCHANGED <<env, now, users, timers, paymentIds, sweep, overlap, banned, submitted,
               last>>
  /\ IF retry.attempt > retry.maxRetries
       THEN retry' = [retry EXCEPT !.pc = "returned"]
     ELSE IF retry.outcomes[k]
       THEN retry' = [retry EXCEPT !.pc = "returned", !.calls = k, !.result = <<k>>]
     ELSE retry' = [retry EXCEPT !.pc = "wait", !.calls = k]

\* One pass of the for loop: the test of the loop, the call of the operation, and
\* the catch.  A loop that is over without a call returns undefined.
RetryAttempt ==
  LET k == retry.calls + 1 IN
  /\ retry.pc = "loop"
  /\ UNCHANGED <<env, now, users, timers, paymentIds, sweep, overlap, banned, submitted,
               last>>
  /\ IF retry.attempt > retry.maxRetries
       THEN retry' = [retry EXCEPT !.pc = "returned"]
     ELSE IF retry.outcomes[k]
       THEN retry' = [retry EXCEPT !.pc = "returned", !.calls = k, !.result = <<k>>]
     ELSE IF retry.attempt = retry.maxRetries
       THEN retry' = [retry EXCEPT !.pc = "threw", !.calls = k, !.result = <<k>>]
     ELSE retry' = [retry EXCEPT !.pc = "wait", !.calls = k]

\* setTimeout(resolve, CONFIG.RETRY_DELAY * attempt), then attempt++.
RetryWait ==
  /\ retry.pc = "wait"
  /\ UNCHANGED <<env, now, users, timers, paymentIds, sweep, overlap, banned, submitted,
               last>>
  /\ retry' = [retry EXCEPT !.pc = "loop",
                            !.waited = Append(@, RETRY_DELAY * retry.attempt),
                            !.attempt = @ + 1]

NextRetry == RetryAttempt \/ RetryWait

\* The loop goes on: a call that was made settles, and the timer of a wait fires.
SpecRetry ==
  InitRetry /\ [][NextRetry]_vars /\ WF_vars(RetryAttempt) /\ WF_vars(RetryWait)

\* Time passes.
Tick ==
  /\ now < MaxNow
  /\ now' = now + 1
  /\ last' = Step("tick", 0, "", <<>>, FALSE)
  /\ UNCHANGED <<env, users, timers, paymentIds, sweep, overlap, banned, submitted, retry>>

\* bot.onText(/\/start/): the upsert and the welcome message.  An upsert that fails
\* on every retry leaves the store as it was and is a stuttering step.
Start(chatId) ==
  /\ users' = upsert(chatId)
  /\ last' = Step("start", chatId, "started", <<"welcome">>, FALSE)
  /\ UNCHANGED <<env, now, timers, paymentIds, sweep, overlap, banned, submitted, retry>>

\* What a pay_ callback may carry in place of the currency and the plan.
CallbackData == {"TON", "USDT", "USDC", "constructor"} \X {"1month", "3months", "2months"}

\* The pay_ callbacks the plan keyboard offers when both wallets are configured.
Keyboard == {<<"USDT", "1month">>, <<"TON", "3months">>}

\* generatePaymentId(): random, modelled as the next unused number.
generatePaymentId == paymentIds + 1

PendingPayment(plan, amount, currency, paymentId) ==
  [plan |-> plan, amount |-> amount, currency |-> currency, paymentId |-> paymentId]

\* callback_query 'pay_<currency>_<plan>' -> handlePayment
HandlePayment(chatId, currency, plan) ==
  LET price == priceLookup(currency, plan)
      pay(outcome, sent) == Step("pay", chatId, outcome, sent, FALSE)
  IN
  /\ UNCHANGED <<env, now, timers, sweep, overlap, banned, submitted, retry>>
  /\ IF ~walletFor(currency)
       THEN /\ last' = pay("CurrencyUnavailable", <<"payments_unavailable">>)
            /\ UNCHANGED <<users, paymentIds>>
       ELSE IF price.threw
         THEN /\ last' = pay("threw", <<"action_failed">>)
              /\ UNCHANGED <<users, paymentIds>>
         ELSE
           /\ paymentIds < MaxPayments
           /\ paymentIds' = generatePaymentId
           /\ \E photoSent \in BOOLEAN, failures \in Failures :
                LET r == retryOperation(failures, MAX_RETRIES)
                    pending == PendingPayment(plan, price.amount, currency, generatePaymentId)
                IN
                IF ~photoSent \/ r.threw
                  THEN /\ last' = pay("setup_failed", <<"setup_failed">>)
                       /\ UNCHANGED users
                  ELSE /\ users' = findOneAndUpdate(chatId,
                                      LAMBDA doc : setPendingPayment(doc, pending))
                       /\ last' = pay("initiated", <<"qr">>)

-----------------------------------------------------------------------------
(* Hash submission: bot.on('message') and its delayed callback *)

UnusedTimers == {t \in TimerIds : timers[t].pc = "unused"}

\* setTimeout(..., PAYMENT_TIMEOUT): the closure keeps chatId and txHash.
setTimeout(chatId, txHash) ==
  LET t == CHOOSE x \in UnusedTimers : \A y \in UnusedTimers : x <= y IN
  [timers EXCEPT ![t] = [Unused EXCEPT !.pc = "lookup", !.chatId = chatId,
                                       !.txHash = txHash]]

\* bot.on('message'): the 'verifying' message is awaited outside any try, so that a
\* sendMessage that throws rejects the promise of the handler before setTimeout.
Message(chatId, text) ==
  LET txHash == trim(text)
      msg(outcome, sent) == Step("message", chatId, outcome, sent, FALSE)
  IN
  /\ UNCHANGED <<env, now, users, paymentIds, sweep, overlap, banned, retry>>
  /\ IF text = <<>> \/ startsWithSlash(text) \/ ~validateTxHash(txHash)
       THEN /\ last' = msg("ignored", <<>>)
            /\ UNCHANGED timers
       ELSE \E delivered \in BOOLEAN :
              IF ~delivered
                THEN /\ last' = msg("UnhandledRejection", <<>>)
                     /\ UNCHANGED timers
                ELSE /\ UnusedTimers # {}
                     /\ timers' = setTimeout(chatId, txHash)
                     /\ last' = msg("scheduled", <<"verifying">>)

OnMessage(chatId, text) == Message(chatId, text) /\ UNCHANGED submitted

\* The callback is over.
Finish(t, op, outcome, sent, admit) ==
  /\ timers' = [timers EXCEPT ![t] = Over]
  /\ last' = Step(op, timers[t].chatId, outcome, sent, admit)

\* The catch of the delayed callback: the error message.  When sending it throws, the
\* rejection leaves the callback.
Catch(t, op) ==
  \E delivered \in BOOLEAN :
    IF delivered
      THEN Finish(t, op, "TransientFailure", <<"verification_failed">>, FALSE)
      ELSE Finish(t, op, "UnhandledRejection", <<>>, FALSE)

\* A callback that works on the attempt that was on file when the hash was sent.
FindUserAtSubmission(t, failures) ==
  LET r == retryOperation(failures, MAX_RETRIES) IN
  /\ timers[t].pc = "lookup"
  /\ UNCHANGED <<env, now, users, paymentIds, sweep, overlap, banned, submitted, retry>>
  /\ IF r.threw
       THEN Catch(t, "lookup")
       ELSE IF submitted[t] = <<>>
         THEN Finish(t, "lookup", "NoPendingPayment", <<"no_pending">>, FALSE)
         ELSE /\ timers' = [timers EXCEPT ![t].pc = "dedup",
                                          ![t].pendingPayment = submitted[t]]
              /\ last' = Step("lookup", timers[t].chatId, "found", <<>>, FALSE)

\* processTransaction: the user lookup, under retryOperation, and the check of the
\* pending payment.  The lookup fails `failures` times in a row.
FindUser(t, failures) ==
  LET r == retryOperation(failures, MAX_RETRIES)
      user == findOne(timers[t].chatId)
  IN
  /\ timers[t].pc = "lookup"
  /\ UNCHANGED <<env, now, users, paymentIds, sweep, overlap, banned, submitted, retry>>
  /\ IF r.threw
       THEN Catch(t, "lookup")
       ELSE IF ~hasPendingPayment(user)
         THEN Finish(t, "lookup", "NoPendingPayment", <<"no_pending">>, FALSE)
         ELSE /\ timers' = [timers EXCEPT ![t].pc = "dedup",
                                          ![t].pendingPayment = user[1].pendingPayment]
              /\ last' = Step("lookup", timers[t].chatId, "found", <<>>, FALSE)

Lookup(t) == \E failures \in TransactionFailures : FindUser(t, failures)

\* processTransaction: the duplicate-hash lookup, a bare await of User.findOne: the
\* first failure of the store throws.
FindExisting(t, failures) ==
  /\ timers[t].pc = "dedup"
  /\ UNCHANGED <<env, now, users, paymentIds, sweep, overlap, banned, submitted, retry>>
  /\ IF failures > 0
       THEN Catch(t, "dedup")
       ELSE IF findByHash(timers[t].txHash) # {}
         THEN Finish(t, "dedup", "DuplicateTransaction", <<"already_processed">>, FALSE)
         ELSE /\ timers' = [timers EXCEPT ![t].pc = "update"]
              /\ last' = Step("dedup", timers[t].chatId, "fresh", <<>>, FALSE)

Dedup(t) == \E failures \in TransactionFailures : FindExisting(t, failures)

\* A record that takes a payment id of its own.
TransactionNewPaymentId(txHash, pending) ==
  [hash |-> txHash, amount |-> pending.amount, currency |-> pending.currency,
   status |-> "verified", verified |-> TRUE, timestamp |-> now,
   paymentId |-> generatePaymentId]

\* The transaction record pushed by the activation write.
Transaction(txHash, pending) ==
  [hash |-> txHash, amount |-> pending.amount, currency |-> pending.currency,
   status |-> "verified", verified |-> TRUE, timestamp |-> now,
   paymentId |-> pending.paymentId]

\* What bot.addChatMember may answer: it resolves, or it throws an error that has a
\* message and, when Telegram responded, a description (a sequence of words).
ChannelAnswers ==
  {[threw |-> FALSE, description |-> <<>>, message |-> ""],
   [threw |-> TRUE, description |-> << <<"Bad", "Request:", "USER_ALREADY_PARTICIPANT">> >>,
    message |-> "ETELEGRAM: 400"],
   [threw |-> TRUE, description |-> << <<"Forbidden:", "bot", "is", "not", "a", "member">> >>,
    message |-> "ETELEGRAM: 403"],
   [threw |-> TRUE, description |-> <<>>, message |-> "EFATAL"]}

\* description?.includes(word)
includes(description, word) ==
  description # <<>> /\ \E i \in 1..Len(description[1]) : description[1][i] = word

\* An addToChannel that takes every error Telegram described for the sentinel.
addToChannelAnyDescription(answer) ==
  IF ~answer.threw
    THEN [success |-> TRUE, message |-> <<>>, error |-> <<>>]
    ELSE IF answer.description # <<>>
      THEN [success |-> TRUE, message |-> <<"User already in channel">>, error |-> <<>>]
      ELSE [success |-> FALSE, message |-> <<>>, error |-> <<answer.message>>]

\* addToChannel: the result object it returns.
addToChannel(answer) ==
  IF ~answer.threw
    THEN [success |-> TRUE, message |-> <<>>, error |-> <<>>]
    ELSE IF includes(answer.description, "USER_ALREADY_PARTICIPANT")
      THEN [success |-> TRUE, message |-> <<"User already in channel">>, error |-> <<>>]
      ELSE [success |-> FALSE, message |-> <<>>, error |-> <<answer.message>>]

\* processTransaction: calculateExpiry and the activation write, then addToChannel
\* and the closing message.  On the month clock of the model calculateExpiry and the
\* write happen at the same instant; addToChannel and the message touch no stored
\* state, so they are taken in the step of the write they follow.
\* An activation that asks the channel first and writes only when it was admitted.
ActivateWhenAdmitted(t, failures, answer) ==
  LET r == retryOperation(failures, MAX_RETRIES)
      pending == timers[t].pendingPayment[1]
      tx == Transaction(timers[t].txHash, pending)
      expiresAt == calculateExpiry(pending.plan, now)
  IN
  /\ timers[t].pc = "update"
  /\ UNCHANGED <<env, now, paymentIds, sweep, overlap, banned, submitted, retry>>
  /\ IF r.threw
       THEN /\ Catch(t, "update")
            /\ UNCHANGED users
       ELSE IF addToChannel(answer).success
         THEN /\ users' = findOneAndUpdate(timers[t].chatId,
                     LAMBDA doc : activationUpdate(doc, pending.plan, expiresAt, tx))
              /\ Finish(t, "update", "SUBSCRIPTION_ACTIVATED", <<"verified_added">>, TRUE)
         ELSE /\ UNCHANGED users
              /\ Finish(t, "update", "SUBSCRIPTION_ACTIVATED_NO_CHANNEL",
                        <<"verified_contact_support">>, TRUE)

\* The write fails `failures` times in a row; addChatMember answers `answer`.
Activate(t, failures, answer) ==
  LET r == retryOperation(failures, MAX_RETRIES)
      pending == timers[t].pendingPayment[1]
      tx == Transaction(timers[t].txHash, pending)
      expiresAt == calculateExpiry(pending.plan, now)
  IN
  /\ timers[t].pc = "update"
  /\ UNCHANGED <<env, now, paymentIds, sweep, overlap, banned, submitted, retry>>
  /\ IF r.threw
       THEN /\ Catch(t, "update")
            /\ UNCHANGED users
       ELSE /\ users' = findOneAndUpdate(timers[t].chatId,
                           LAMBDA doc : activationUpdate(doc, pending.plan, expiresAt, tx))
            /\ IF addToChannel(answer).success
                 THEN Finish(t, "update", "SUBSCRIPTION_ACTIVATED",
                             <<"verified_added">>, TRUE)
                 ELSE Finish(t, "update", "SUBSCRIPTION_ACTIVATED_NO_CHANNEL",
                             <<"verified_contact_support">>, TRUE)

\* What the channel answers to addChatMember for a user: it admits nobody it has
\* banned.
AnswersFor(chatId) ==
  IF chatId \in banned
    THEN {answer \in ChannelAnswers : ~addToChannel(answer).success}
    ELSE ChannelAnswers

Update(t) ==
  \E failures \in TransactionFailures, answer \in AnswersFor(timers[t].chatId) :
    Activate(t, failures, answer)

-----------------------------------------------------------------------------

\* The chat messages: any text from any user, except that HashB comes from user 1
\* only (user 1 submits two hashes, both users submit HashA).
Submissions == {m \in Users \X Texts : m[1] = 1 \/ m[2] # HashB}

NoCallbackInFlight == \A t \in TimerIds : timers[t].pc \in {"unused", "over"}

Callbacks ==
  \/ \E t \in TimerIds : Lookup(t)
  \/ \E t \in TimerIds : Dedup(t)
  \/ \E t \in TimerIds : Update(t)

\* bot.on('message') with the history of the submission: the callback it schedules is
\* paired with the pendingPayment on file at this moment.
Submit(chatId, text) ==
  /\ Message(chatId, text)
  /\ submitted' =
       [t \in TimerIds |->
          IF timers[t].pc = "unused" /\ timers'[t].pc = "lookup"
            THEN (IF users[chatId] = <<>> THEN <<>> ELSE users[chatId][1].pendingPayment)
            ELSE submitted[t]]

\* The bot with the inputs of the keyboard; delayed callbacks overlap.
Next ==
  \/ Tick
  \/ \E u \in Users : Start(u)
  \/ \E u \in Users, d \in Keyboard : HandlePayment(u, d[1], d[2])
  \/ \E m \in Submissions : OnMessage(m[1], m[2])
  \/ Callbacks

Spec == Init /\ [][Next]_vars

\* The bot with any callback data, in any deployment; a message arrives when no
\* delayed callback is in flight.
NextWide ==
  \/ \E u \in Users : Start(u)
  \/ \E u \in Users, d \in CallbackData : HandlePayment(u, d[1], d[2])
  \/ \E m \in Submissions : NoCallbackInFlight /\ OnMessage(m[1], m[2])
  \/ Callbacks

SpecWide == InitWide /\ [][NextWide]_vars

\* The bot with the history of its submissions.
NextTimer ==
  \/ \E u \in Users : Start(u)
  \/ \E u \in Users, d \in Keyboard : HandlePayment(u, d[1], d[2])
  \/ \E m \in Submissions : Submit(m[1], m[2])
  \/ Callbacks

SpecTimer == Init /\ [][NextTimer]_vars

-----------------------------------------------------------------------------
(* Dates of a finer grain than the month *)

\* The clock counts months.  A handler that reads new Date() runs some hours into the
\* month; a day has 24 hours and the months of the model 30 days.
DayHours == 24
MonthHours == 720
Instants == {0, 1, 25}

\* new Date(), in hours, for a handler that runs h hours into the month.
Date(h) == now * MonthHours + h

\* A stored date, in hours.
getTime(date) == date * MonthHours

\* Math.ceil(a / b) for b > 0.
ceil(a, b) == -((-a) \div b)

\* What a status message tells: whose subscription, whether it is shown as expired,
\* the days it gives, the expiry it shows and the date it was computed at (in hours).
Status(userId, expired, daysLeft, expiresAt, at) ==
  [userId |-> userId, expired |-> expired, daysLeft |-> daysLeft,
   expiresAt |-> expiresAt, at |-> at]

\* handleSubscription, h hours into the month.  A subscription without expiresAt
\* throws at toLocaleDateString.
handleSubscription(chatId) ==
  LET user == findOne(chatId)
      shown(outcome, sent) == Step("subscription", chatId, outcome, sent, FALSE)
  IN
  /\ UNCHANGED <<env, now, users, timers, paymentIds, sweep, overlap, banned,
                 submitted, retry>>
  /\ \E failures \in Failures, h \in Instants :
       IF retryOperation(failures, MAX_RETRIES).threw
         THEN last' = shown("threw", <<"unable_to_check">>)
         ELSE IF user = <<>> \/ user[1].subscription = "none"
           THEN last' = shown("SUBSCRIPTION_CHECKED", <<"no_subscription">>)
           ELSE IF user[1].expiresAt = <<>>
             THEN last' = shown("threw", <<"unable_to_check">>)
             ELSE LET expiresAt == getTime(user[1].expiresAt[1])
                      isExpired == expiresAt < Date(h)
                      daysLeft == IF isExpired THEN 0
                                  ELSE ceil(expiresAt - Date(h), DayHours)
                  IN last' = [shown("SUBSCRIPTION_CHECKED",
                                    <<IF isExpired THEN "expired" ELSE "active">>)
                                EXCEPT !.status = <<Status(chatId, isExpired, daysLeft,
                                                           expiresAt, Date(h))>>]

-----------------------------------------------------------------------------
(* The expiry sweeper: setInterval(..., CLEANUP_INTERVAL) *)

\* { expiresAt: { $lt: now }, subscription: { $ne: 'none' } } without the test of the
\* subscription.
expiredFilterAnySubscription(doc, date) ==
  doc.expiresAt # <<>> /\ doc.expiresAt[1] < date

\* { expiresAt: { $lt: now }, subscription: { $ne: 'none' } }
expiredFilter(doc, date) ==
  /\ doc.expiresAt # <<>>
  /\ doc.expiresAt[1] < date
  /\ doc.subscription # "none"

\* User.find(filter): the matching users, in the order of their ids.
RECURSIVE find(_, _)
find(date, from) ==
  IF from \notin Users THEN <<>>
  ELSE IF users[from] # <<>> /\ expiredFilter(users[from][1], date)
    THEN <<from>> \o find(date, from + 1)
    ELSE find(date, from + 1)

\* A save that clears expiresAt with the subscription.
saveClearsExpiry(userId) ==
  IF users[userId] = <<>> THEN users
  ELSE [users EXCEPT ![userId] = <<[users[userId][1] EXCEPT !.subscription = "none",
                                                           !.expiresAt = <<>>]>>]

\* user.subscription = 'none'; user.save(): the write of the modified path.
save(userId) ==
  IF users[userId] = <<>> THEN users
  ELSE [users EXCEPT ![userId] = <<[users[userId][1] EXCEPT !.subscription = "none"]>>]

\* The call of a sweep over one user that throws, if any.
SweepFaults == {"none", "banChatMember", "unbanChatMember", "save", "sendMessage"}

\* banChatMember then unbanChatMember: who is banned from the channel afterwards.  A
\* banChatMember that throws bans nobody; an unbanChatMember that throws leaves the
\* ban of the call before it.
revoke(userId, fault) ==
  IF fault = "banChatMember" THEN banned
  ELSE IF fault = "unbanChatMember" THEN banned \cup {userId}
  ELSE banned \ {userId}

\* Time passes in the runs with the sweeper.
SweepTick ==
  /\ now < MaxClock
  /\ now' = now + 1
  /\ last' = Step("tick", 0, "", <<>>, FALSE)
  /\ UNCHANGED <<env, users, timers, paymentIds, sweep, overlap, banned, submitted, retry>>

\* A run begins: User.find.  When it throws, the outer catch logs and the run is over.
SweepFind ==
  /\ sweep.pc = "idle"
  /\ UNCHANGED <<env, now, users, timers, paymentIds, overlap, banned, submitted, retry>>
  /\ \E failed \in BOOLEAN :
       IF failed
         THEN /\ last' = Step("cleanup", 0, "CLEANUP_ERROR", <<>>, FALSE)
              /\ UNCHANGED sweep
         ELSE LET expiredUsers == find(now, 1) IN
              /\ sweep' = IF expiredUsers = <<>> THEN Idle
                          ELSE [pc |-> "users", expiredUsers |-> expiredUsers]
              /\ last' = Step("cleanup", 0, "CLEANUP", <<>>, FALSE)

\* A loop that a throwing call ends.
SweepUserUntilFailure(fault) ==
  LET userId == Head(sweep.expiredUsers)
      rest == Tail(sweep.expiredUsers)
      step(outcome, sent, calls) ==
        [Step("cleanup", userId, outcome, sent, FALSE) EXCEPT !.revoke = calls]
  IN
  /\ sweep.pc = "users"
  /\ UNCHANGED <<env, now, timers, paymentIds, overlap, submitted, retry>>
  /\ IF fault \in {"banChatMember", "unbanChatMember", "save"}
       THEN /\ sweep' = Idle
            /\ last' = step("CLEANUP_FAILED", <<>>, <<"banChatMember">>)
            /\ UNCHANGED <<users, banned>>
       ELSE /\ sweep' = IF rest = <<>> THEN Idle ELSE [sweep EXCEPT !.expiredUsers = rest]
            /\ users' = save(userId)
            /\ banned' = banned \ {userId}
            /\ last' = step("SUBSCRIPTION_EXPIRED",
                            IF fault = "sendMessage" THEN <<>> ELSE <<"expired">>,
                            <<"banChatMember", "unbanChatMember">>)

\* A loop body that expires the user first and revokes afterwards: a channel call
\* that throws comes after the save.
SweepUserExpiresFirst(fault) ==
  LET userId == Head(sweep.expiredUsers)
      rest == Tail(sweep.expiredUsers)
      step(outcome, sent, calls) ==
        [Step("cleanup", userId, outcome, sent, FALSE) EXCEPT !.revoke = calls]
  IN
  /\ sweep.pc = "users"
  /\ UNCHANGED <<env, now, timers, paymentIds, overlap, submitted, retry>>
  /\ sweep' = IF rest = <<>> THEN Idle ELSE [sweep EXCEPT !.expiredUsers = rest]
  /\ banned' = revoke(userId, fault)
  /\ IF fault = "save"
       THEN /\ last' = step("CLEANUP_FAILED", <<>>, <<>>)
            /\ UNCHANGED users
     ELSE IF fault = "banChatMember"
       THEN /\ last' = step("CLEANUP_FAILED", <<>>, <<"banChatMember">>)
            /\ users' = save(userId)
     ELSE IF fault = "unbanChatMember"
       THEN /\ last' = step("CLEANUP_FAILED", <<>>, <<"banChatMember", "unbanChatMember">>)
            /\ users' = save(userId)
     ELSE /\ users' = save(userId)
          /\ last' = step("SUBSCRIPTION_EXPIRED",
                          IF fault = "sendMessage" THEN <<>> ELSE <<"expired">>,
                          <<"banChatMember", "unbanChatMember">>)

\* The subscription on file is none already when a run comes to the user: the save of
\* the run writes what is there.
AlreadyNone(userId) == users[userId] # <<>> /\ users[userId][1].subscription = "none"

\* The body of the loop for the next selected user.
SweepUser(fault) ==
  LET userId == Head(sweep.expiredUsers)
      rest == Tail(sweep.expiredUsers)
      step(outcome, sent, calls) ==
        [Step("cleanup", userId, outcome, sent, FALSE) EXCEPT !.revoke = calls]
  IN
  /\ sweep.pc = "users"
  /\ UNCHANGED <<env, now, timers, paymentIds, overlap, submitted, retry>>
  /\ sweep' = IF rest = <<>> THEN Idle ELSE [sweep EXCEPT !.expiredUsers = rest]
  /\ banned' = revoke(userId, fault)
  /\ IF fault = "banChatMember"
       THEN /\ last' = step("CLEANUP_FAILED", <<>>, <<"banChatMember">>)
            /\ UNCHANGED users
     ELSE IF fault \in {"unbanChatMember", "save"}
       THEN /\ last' = step("CLEANUP_FAILED", <<>>, <<"banChatMember", "unbanChatMember">>)
            /\ UNCHANGED users
     ELSE /\ users' = save(userId)
          /\ last' = [step("SUBSCRIPTION_EXPIRED",
                           IF fault = "sendMessage" THEN <<>> ELSE <<"expired">>,
                           <<"banChatMember", "unbanChatMember">>)
                        EXCEPT !.already = AlreadyNone(userId)]

\* The bot with its sweeper; a message arrives when no delayed callback is in flight.
NextSweep ==
  \/ SweepTick
  \/ \E u \in Users : Start(u)
  \/ \E u \in Users, d \in Keyboard : HandlePayment(u, d[1], d[2])
  \/ \E m \in Submissions : NoCallbackInFlight /\ OnMessage(m[1], m[2])
  \/ Callbacks
  \/ SweepFind
  \/ \E fault \in SweepFaults : SweepUser(fault)
  \/ \E u \in Users : handleSubscription(u)

SpecSweep == Init /\ [][NextSweep]_vars

\* The interval fires again and again and the loop of a run goes on; the store and the
\* channel do not fail for ever.
SpecSweepLive ==
  /\ SpecSweep
  /\ SF_vars(SweepFind /\ last'.outcome = "CLEANUP")
  /\ SF_vars(SweepUser("none"))
  /\ WF_vars(\E fault \in SweepFaults : SweepUser(fault))

\* The interval fires while the run before it is still in its loop: a second run
\* begins with its own User.find.
OverlapFind ==
  /\ sweep.pc = "users"
  /\ overlap.pc = "idle"
  /\ UNCHANGED <<env, now, users, timers, paymentIds, sweep, banned, submitted, retry>>
  /\ \E failed \in BOOLEAN :
       IF failed
         THEN /\ last' = Step("cleanup", 0, "CLEANUP_ERROR", <<>>, FALSE)
              /\ UNCHANGED overlap
         ELSE LET expiredUsers == find(now, 1) IN
              /\ overlap' = IF expiredUsers = <<>> THEN Idle
                            ELSE [pc |-> "users", expiredUsers |-> expiredUsers]
              /\ last' = Step("cleanup", 0, "CLEANUP", <<>>, FALSE)

\* The body of the loop of the second run, on the documents it read itself.
OverlapUser(fault) ==
  LET userId == Head(overlap.expiredUsers)
      rest == Tail(overlap.expiredUsers)
      step(outcome, sent, calls) ==
        [Step("cleanup", userId, outcome, sent, FALSE) EXCEPT !.revoke = calls]
  IN
  /\ overlap.pc = "users"
  /\ UNCHANGED <<env, now, timers, paymentIds, sweep, submitted, retry>>
  /\ overlap' = IF rest = <<>> THEN Idle ELSE [overlap EXCEPT !.expiredUsers = rest]
  /\ banned' = revoke(userId, fault)
  /\ IF fault = "banChatMember"
       THEN /\ last' = step("CLEANUP_FAILED", <<>>, <<"banChatMember">>)
            /\ UNCHANGED users
     ELSE IF fault \in {"unbanChatMember", "save"}
       THEN /\ last' = step("CLEANUP_FAILED", <<>>, <<"banChatMember", "unbanChatMember">>)
            /\ UNCHANGED users
     ELSE /\ users' = save(userId)
          /\ last' = [step("SUBSCRIPTION_EXPIRED",
                           IF fault = "sendMessage" THEN <<>> ELSE <<"expired">>,
                           <<"banChatMember", "unbanChatMember">>)
                        EXCEPT !.already = AlreadyNone(userId)]

\* /testchannel: getChat, getChatAdministrators and getMe, then the report; when one
\* of them throws, the failure message.  The command asks nothing of the channel
\* for the user who sent it.
TestChannel(chatId) ==
  /\ UNCHANGED <<env, now, users, timers, paymentIds, sweep, overlap, banned,
               submitted, retry>>
  /\ \E failed \in BOOLEAN :
       last' = IF failed
                 THEN Step("testchannel", chatId, "CHANNEL_TEST_FAILED",
                           <<"channel_test_failed">>, FALSE)
                 ELSE Step("testchannel", chatId, "CHANNEL_TEST", <<"channel_test">>, FALSE)

\* The bot with a sweeper whose runs overlap and its diagnostic command.
NextOverlap ==
  \/ SweepTick
  \/ \E u \in Users : Start(u)
  \/ \E u \in Users, d \in Keyboard : HandlePayment(u, d[1], d[2])
  \/ \E m \in Submissions : NoCallbackInFlight /\ OnMessage(m[1], m[2])
  \/ Callbacks
  \/ SweepFind
  \/ \E fault \in SweepFaults : SweepUser(fault)
  \/ OverlapFind
  \/ \E fault \in SweepFaults : OverlapUser(fault)
  \/ \E u \in Users : TestChannel(u)

SpecOverlap == Init /\ [][NextOverlap]_vars

-----------------------------------------------------------------------------
(* The revision src/unnamed/part_001: the hash is checked in the message handler    *)
(* itself, on chain for TON and by an operator for the other currencies.           *)

P1_PRICES ==
  ("USDT" :> (("1month" :> 24) @@ ("3months" :> 55))) @@
  ("USDC" :> (("1month" :> 24) @@ ("3months" :> 55))) @@
  ("TON" :> (("1month" :> 11) @@ ("3months" :> 25)))

\* process.env[`${currency}_WALLET_ADDRESS`]; the deployments of the model set no
\* other address than those of TON and USDT.
P1_wallet(currency) == currency \in DOMAIN env /\ env[currency]

\* { plan, amount, currency }
P1_PendingPayment(plan, amount, currency) ==
  [plan |-> plan, amount |-> amount, currency |-> currency]

\* callback_query 'pay_<currency>_<plan>'
P1_Pay(chatId, currency, plan) ==
  LET amount == IF plan \in DOMAIN P1_PRICES[currency]
                  THEN <<P1_PRICES[currency][plan]>> ELSE <<>>
      pay(outcome, sent) == Step("pay", chatId, outcome, sent, FALSE)
  IN
  /\ UNCHANGED <<env, now, timers, paymentIds, sweep, overlap, banned, submitted, retry>>
  /\ IF ~P1_wallet(currency)
       THEN /\ last' = pay("CurrencyUnavailable", <<"payments_disabled">>)
            /\ UNCHANGED users
       ELSE \E photoSent \in BOOLEAN, stored \in BOOLEAN :
              IF ~photoSent \/ ~stored
                THEN /\ last' = pay("threw", <<"error_occurred">>)
                     /\ UNCHANGED users
                ELSE /\ users' = findOneAndUpdate(chatId,
                          LAMBDA doc : [doc EXCEPT !.pendingPayment =
                                          <<P1_PendingPayment(plan, amount, currency)>>])
                     /\ last' = pay("initiated", <<"qr">>)

\* The TON wallet of the deployment, and the destinations a looked-up transaction may
\* have.  Addresses are sequences of characters.
TON_WALLET_ADDRESS == <<"E", "Q", "-", "a">>
Destinations == {<<"e", "q", "a">>, <<"E", "Q", "A">>, <<"E", "Q", "-", "a">>, <<"x">>}

\* toLowerCase on the characters of the addresses.
toLowerCase(text) ==
  [i \in 1..Len(text) |->
     IF text[i] = "E" THEN "e" ELSE IF text[i] = "Q" THEN "q"
     ELSE IF text[i] = "A" THEN "a" ELSE text[i]]

\* replace(/[^a-zA-Z0-9]/g, '')
stripNonAlphanumeric(text) == SelectSeq(text, LAMBDA c : c # "-")

\* What the lookup at toncenter.com may give: the fetch throws, or it answers with ok
\* and a result whose in_msg has a destination (or none) and a value, here in
\* thousandths of a TON.
Responses ==
  {[threw |-> TRUE, ok |-> FALSE, destination |-> <<>>, value |-> 0],
   [threw |-> FALSE, ok |-> FALSE, destination |-> <<>>, value |-> 0],
   [threw |-> FALSE, ok |-> TRUE, destination |-> <<>>, value |-> 25000]}
  \cup {[threw |-> FALSE, ok |-> TRUE, destination |-> <<d>>, value |-> v] :
          d \in Destinations, v \in {25000, 25009, 25010, 0}}

\* verifyTONTransaction; expectedAmount in TON.
verifyTONTransaction(response, expectedAmount, walletAddress) ==
  IF response.threw THEN FALSE
  ELSE IF ~response.ok THEN FALSE
  ELSE IF response.destination = <<>> THEN FALSE
  ELSE IF toLowerCase(response.destination[1])
            # toLowerCase(stripNonAlphanumeric(walletAddress)) THEN FALSE
  ELSE LET difference == response.value - expectedAmount * 1000 IN
       (IF difference < 0 THEN -difference ELSE difference) < 10

\* A message for the operator that leaves the plan out.
notifyAdminWithoutPlan(txHash, userId, amount, currency, plan) ==
  [userId |-> userId, amount |-> amount, currency |-> currency, plan |-> "",
   txHash |-> txHash]

\* notifyAdmin: the message for the operator.
notifyAdmin(txHash, userId, amount, currency, plan) ==
  [userId |-> userId, amount |-> amount, currency |-> currency, plan |-> plan,
   txHash |-> txHash]

\* The record pushed by the message handler.
P1_Transaction(txHash, pending, status) ==
  [hash |-> txHash, amount |-> pending.amount, currency |-> pending.currency,
   status |-> status, timestamp |-> now]

\* A store call of this revision throws: nothing catches it, the handler is over
\* without a message.
P1_Rejection(t, op) == Finish(t, op, "UnhandledRejection", <<>>, FALSE)

\* bot.on('message'): the shape check and the user lookup.
P1_Message(chatId, text) ==
  LET tx == trim(text)
      user == findOne(chatId)
      msg(outcome, sent) == Step("message", chatId, outcome, sent, FALSE)
  IN
  /\ UNCHANGED <<env, now, users, paymentIds, sweep, overlap, banned, submitted, retry>>
  /\ IF text = <<>> \/ startsWithSlash(text) \/ ~validateTxHash(tx)
       THEN /\ last' = msg("ignored", <<>>)
            /\ UNCHANGED timers
       ELSE \E failed \in BOOLEAN :
              IF failed
                THEN /\ last' = msg("UnhandledRejection", <<>>)
                     /\ UNCHANGED timers
              ELSE IF ~hasPendingPayment(user)
                THEN /\ last' = msg("NoPendingPayment", <<"no_pending">>)
                     /\ UNCHANGED timers
                ELSE /\ UnusedTimers # {}
                     /\ timers' =
                          LET t == CHOOSE x \in UnusedTimers : \A y \in UnusedTimers : x <= y
                          IN [timers EXCEPT ![t] =
                                [pc |-> "dedup", chatId |-> chatId, txHash |-> tx,
                                 pendingPayment |-> user[1].pendingPayment]]
                     /\ last' = msg("found", <<>>)

\* The duplicate lookup and, for TON, verifyTONTransaction; the store fails or not,
\* and toncenter answers `response`.
P1_Verify(t, failed, response) ==
  LET pending == timers[t].pendingPayment[1] IN
  /\ timers[t].pc = "dedup"
  /\ UNCHANGED <<env, now, users, paymentIds, sweep, overlap, banned, submitted, retry>>
  /\ IF failed
       THEN P1_Rejection(t, "dedup")
       ELSE IF findByHash(timers[t].txHash) # {}
         THEN Finish(t, "dedup", "DuplicateTransaction", <<"already_used">>, FALSE)
         ELSE /\ timers' = [timers EXCEPT ![t].pc =
                   IF /\ pending.currency = "TON"
                      /\ pending.amount # <<>>
                      /\ verifyTONTransaction(response, pending.amount[1],
                                              TON_WALLET_ADDRESS)
                     THEN "accept" ELSE "review"]
              /\ last' = Step("dedup", timers[t].chatId, "fresh", <<>>, FALSE)

P1_Dedup(t) == \E failed \in BOOLEAN, response \in Responses : P1_Verify(t, failed, response)

\* isValid: the activation write, addChatMember and the closing message.
P1_Accept(t) ==
  LET pending == timers[t].pendingPayment[1]
      expiresAt == now + (IF pending.plan = "1month" THEN 1 ELSE 3)
      tx == P1_Transaction(timers[t].txHash, pending, "completed")
  IN
  /\ timers[t].pc = "accept"
  /\ UNCHANGED <<env, now, paymentIds, sweep, overlap, banned, submitted, retry>>
  /\ \E failed \in BOOLEAN, answer \in ChannelAnswers :
       IF failed
         THEN P1_Rejection(t, "accept") /\ UNCHANGED users
         ELSE /\ users' = findOneAndUpdate(timers[t].chatId,
                    LAMBDA doc : activationUpdate(doc, pending.plan, expiresAt, tx))
              /\ IF ~answer.threw \/ includes(answer.description, "USER_ALREADY_PARTICIPANT")
                   THEN Finish(t, "accept", "activated", <<"verified_added">>, TRUE)
                   ELSE Finish(t, "accept", "activated", <<"verified_contact">>, TRUE)

\* Falling out of the TON branch, or another currency: the record for the operator,
\* notifyAdmin and the message to the user.  notifyAdmin catches a failed delivery,
\* after which the handler goes on as it does otherwise.
P1_Review(t) ==
  LET pending == timers[t].pendingPayment[1]
      tx == P1_Transaction(timers[t].txHash, pending, "awaiting_manual_check")
  IN
  /\ timers[t].pc = "review"
  /\ UNCHANGED <<env, now, paymentIds, sweep, overlap, banned, submitted, retry>>
  /\ \E failed \in BOOLEAN :
       IF failed
         THEN P1_Rejection(t, "review") /\ UNCHANGED users
         ELSE /\ users' = findOneAndUpdate(timers[t].chatId,
                    LAMBDA doc : [doc EXCEPT !.transactions = Append(@, tx)])
              /\ timers' = [timers EXCEPT ![t] = Over]
              /\ last' = [outcome |-> "under_review", sent |-> <<"under_review">>,
                          admit |-> FALSE, revoke |-> <<>>, status |-> <<>>,
                          already |-> FALSE,
                          notice |-> <<notifyAdmin(timers[t].txHash, timers[t].chatId,
                                         pending.amount, pending.currency, pending.plan)>>]

NextP1 ==
  \/ Tick
  \/ \E u \in Users : Start(u)
  \/ \E u \in Users, d \in Keyboard : P1_Pay(u, d[1], d[2])
  \/ \E m \in Submissions : P1_Message(m[1], m[2])
  \/ \E t \in TimerIds : P1_Dedup(t)
  \/ \E t \in TimerIds : P1_Accept(t)
  \/ \E t \in TimerIds : P1_Review(t)

SpecP1 == Init /\ [][NextP1]_vars

-----------------------------------------------------------------------------
(* The revision src/unnamed/part_000: one currency, no duplicate lookup, and the    *)
(* sweeper registered by the handler of uncaughtException.                         *)

\* No setInterval of the sweeper was called.
Off == [pc |-> "off", expiredUsers |-> <<>>]

\* WALLET_ADDRESS, the USDT wallet, is required at startup.
InitP0 ==
  /\ env = [TON |-> FALSE, USDT |-> TRUE]
  /\ now = 0
  /\ users = [u \in Users |-> <<>>]
  /\ timers = [t \in TimerIds |-> Unused]
  /\ paymentIds = 0
  /\ sweep = Off
  /\ overlap = Idle
  /\ banned = {}
  /\ submitted = [t \in TimerIds |-> <<>>]
  /\ retry = NoRetry
  /\ last = Step("init", 0, "", <<>>, FALSE)

\* const prices = { '1month': 24, '3months': 55 }
P0_prices == ("1month" :> 24) @@ ("3months" :> 55)

\* callback_query 'subscribe_<plan>': the instructions, then the $set.
P0_Subscribe(chatId, plan) ==
  LET amount == IF plan \in DOMAIN P0_prices THEN <<P0_prices[plan]>> ELSE <<>>
      pay(outcome, sent) == Step("subscribe", chatId, outcome, sent, FALSE)
  IN
  /\ UNCHANGED <<env, now, timers, paymentIds, sweep, overlap, banned, submitted, retry>>
  /\ \E delivered \in BOOLEAN, stored \in BOOLEAN :
       IF ~delivered \/ ~stored
         THEN /\ last' = pay("threw", <<"error_occurred">>)
              /\ UNCHANGED users
         ELSE /\ users' = findOneAndUpdate(chatId,
                   LAMBDA doc : [doc EXCEPT !.pendingPayment =
                                   <<[plan |-> plan, amount |-> amount]>>])
              /\ last' = pay("initiated", <<"instructions">>)

\* bot.on('message'): the 'verifying' message, awaited outside any try, then
\* setTimeout.
P0_Message(chatId, text) ==
  LET tx == trim(text)
      msg(outcome, sent) == Step("message", chatId, outcome, sent, FALSE)
  IN
  /\ UNCHANGED <<env, now, users, paymentIds, sweep, overlap, banned, submitted, retry>>
  /\ IF text = <<>> \/ startsWithSlash(text) \/ ~validateTxHash(tx)
       THEN /\ last' = msg("ignored", <<>>)
            /\ UNCHANGED timers
       ELSE \E delivered \in BOOLEAN :
              IF ~delivered
                THEN /\ last' = msg("UnhandledRejection", <<>>)
                     /\ UNCHANGED timers
                ELSE /\ UnusedTimers # {}
                     /\ timers' = setTimeout(chatId, tx)
                     /\ last' = msg("scheduled", <<"verifying">>)

\* The delayed callback: User.findOne.  Without a pending payment it ends in silence.
P0_Lookup(t) ==
  /\ timers[t].pc = "lookup"
  /\ UNCHANGED <<env, now, users, paymentIds, sweep, overlap, banned, submitted, retry>>
  /\ \E failed \in BOOLEAN :
       LET user == findOne(timers[t].chatId) IN
       IF failed
         THEN Finish(t, "lookup", "threw", <<"error_activating">>, FALSE)
         ELSE IF ~hasPendingPayment(user)
           THEN Finish(t, "lookup", "NoPendingPayment", <<>>, FALSE)
           ELSE /\ timers' = [timers EXCEPT ![t].pc = "update",
                                            ![t].pendingPayment = user[1].pendingPayment]
                /\ last' = Step("lookup", timers[t].chatId, "found", <<>>, FALSE)

\* The delayed callback: the activation write, addChatMember and the closing message.
\* The schema of this revision has no path transactions: the strict schema drops the
\* $push from the update.
P0_Activate(t) ==
  LET pending == timers[t].pendingPayment[1]
      expiresAt == now + (IF pending.plan = "1month" THEN 1 ELSE 3)
  IN
  /\ timers[t].pc = "update"
  /\ UNCHANGED <<env, now, paymentIds, sweep, overlap, banned, submitted, retry>>
  /\ \E failed \in BOOLEAN, answer \in ChannelAnswers :
       IF failed
         THEN /\ Finish(t, "update", "threw", <<"error_activating">>, FALSE)
              /\ UNCHANGED users
         ELSE /\ users' = findOneAndUpdate(timers[t].chatId,
                    LAMBDA doc : [doc EXCEPT !.subscription = pending.plan,
                                             !.expiresAt = <<expiresAt>>,
                                             !.pendingPayment = <<>>])
              /\ IF ~answer.threw \/ includes(answer.description, "USER_ALREADY_PARTICIPANT")
                   THEN Finish(t, "update", "activated", <<"verified_added">>, TRUE)
                   ELSE Finish(t, "update", "activated", <<"verified_contact">>, TRUE)

\* callback_query 'my_subscription': the days are not floored at 0.
P0_MySubscription(chatId) ==
  LET user == findOne(chatId)
      shown(outcome, sent) == Step("my_subscription", chatId, outcome, sent, FALSE)
  IN
  /\ UNCHANGED <<env, now, users, timers, paymentIds, sweep, overlap, banned,
               submitted, retry>>
  /\ \E failed \in BOOLEAN, h \in Instants :
       IF failed \/ (user # <<>> /\ user[1].subscription # "none" /\ user[1].expiresAt = <<>>)
         THEN last' = shown("threw", <<"error_occurred">>)
         ELSE IF user = <<>> \/ user[1].subscription = "none"
           THEN last' = shown("none", <<"no_subscription">>)
           ELSE LET expiresAt == getTime(user[1].expiresAt[1]) IN
                last' = [shown("status", <<"status">>) EXCEPT !.status =
                  <<Status(chatId, FALSE, ceil(expiresAt - Date(h), DayHours),
                           expiresAt, Date(h))>>]

\* process.on('uncaughtException'): the log, and the setInterval of the sweeper.  The
\* model follows the interval the first exception registers.
P0_UncaughtException ==
  /\ sweep' = IF sweep.pc = "off" THEN Idle ELSE sweep
  /\ last' = Step("uncaughtException", 0, "UNCAUGHT_EXCEPTION", <<>>, FALSE)
  /\ UNCHANGED <<env, now, users, timers, paymentIds, overlap, banned, submitted, retry>>

\* A run of the registered interval begins: User.find, outside any try.
P0_SweepFind ==
  /\ sweep.pc = "idle"
  /\ UNCHANGED <<env, now, users, timers, paymentIds, overlap, banned, submitted, retry>>
  /\ \E failed \in BOOLEAN :
       IF failed
         THEN /\ last' = Step("cleanup", 0, "UnhandledRejection", <<>>, FALSE)
              /\ UNCHANGED sweep
         ELSE LET expired == find(now, 1) IN
              /\ sweep' = IF expired = <<>> THEN Idle
                          ELSE [pc |-> "users", expiredUsers |-> expired]
              /\ last' = Step("cleanup", 0, "CLEANUP", <<>>, FALSE)

\* The body of the loop; a sendMessage that throws is caught after the save.
P0_SweepUser(fault) ==
  LET userId == Head(sweep.expiredUsers)
      rest == Tail(sweep.expiredUsers)
      step(outcome, sent, calls) ==
        [Step("cleanup", userId, outcome, sent, FALSE) EXCEPT !.revoke = calls]
  IN
  /\ sweep.pc = "users"
  /\ UNCHANGED <<env, now, timers, paymentIds, overlap, submitted, retry>>
  /\ sweep' = IF rest = <<>> THEN Idle ELSE [sweep EXCEPT !.expiredUsers = rest]
  /\ banned' = revoke(userId, fault)
  /\ IF fault = "banChatMember"
       THEN /\ last' = step("CLEANUP_FAILED", <<>>, <<"banChatMember">>)
            /\ UNCHANGED users
     ELSE IF fault \in {"unbanChatMember", "save"}
       THEN /\ last' = step("CLEANUP_FAILED", <<>>, <<"banChatMember", "unbanChatMember">>)
            /\ UNCHANGED users
     ELSE /\ users' = save(userId)
          /\ last' = IF fault = "sendMessage"
                       THEN step("CLEANUP_FAILED", <<>>,
                                 <<"banChatMember", "unbanChatMember">>)
                       ELSE step("SUBSCRIPTION_EXPIRED", <<"expired">>,
                                 <<"banChatMember", "unbanChatMember">>)

P0_Plans == {"1month", "3months"}

\* /testchannel of this revision: after getChat, getChatAdministrators and getMe it
\* calls addChatMember for the user who sent the command and reports the result;
\* when one of the first three throws, the outer catch reports and nothing is added.
P0_TestChannel(chatId) ==
  /\ UNCHANGED <<env, now, users, timers, paymentIds, sweep, overlap, banned,
               submitted, retry>>
  /\ \E failed \in BOOLEAN, answer \in AnswersFor(chatId) :
       last' = IF failed
                 THEN Step("testchannel", chatId, "test_error", <<"test_error">>, FALSE)
               ELSE IF answer.threw
                 THEN Step("testchannel", chatId, "test_failed", <<"test_failed">>, TRUE)
               ELSE Step("testchannel", chatId, "test_added", <<"test_added">>, TRUE)

NextP0 ==
  \/ SweepTick
  \/ \E u \in Users : Start(u)
  \/ \E u \in Users, plan \in P0_Plans : P0_Subscribe(u, plan)
  \/ \E m \in Submissions : NoCallbackInFlight /\ P0_Message(m[1], m[2])
  \/ \E t \in TimerIds : P0_Lookup(t)
  \/ \E t \in TimerIds : P0_Activate(t)
  \/ \E u \in Users : P0_MySubscription(u)
  \/ \E u \in Users : P0_TestChannel(u)
  \/ P0_UncaughtException
  \/ P0_SweepFind
  \/ \E fault \in SweepFaults : P0_SweepUser(fault)

\* A registered interval fires again and again, and its loop goes on; the store and
\* the channel do not fail for ever.  Nothing makes an uncaught exception happen.
SpecP0 ==
  /\ InitP0
  /\ [][NextP0]_vars
  /\ SF_vars(P0_SweepFind /\ last'.outcome = "CLEANUP")
  /\ SF_vars(P0_SweepUser("none"))
  /\ WF_vars(\E fault \in SweepFaults : P0_SweepUser(fault))

-----------------------------------------------------------------------------
(* Vocabulary of the properties *)

Stored == {u \in Users : users[u] # <<>>}
Doc(u) == users[u][1]

\* The transaction records of the store, as <<user, position>>.
Records == UNION {{<<u, i>> : i \in 1..Len(Doc(u).transactions)} : u \in Stored}
Rec(r) == Doc(r[1]).transactions[r[2]]

Recorded(hash) == \E r \in Records : Rec(r).hash = hash

\* The callback t takes a step.
Steps(t) == timers'[t] # timers[t]

\* The store call of the step came back (it did not fail on every retry).
Returned == last'.outcome \notin {"TransientFailure", "UnhandledRejection"}

-----------------------------------------------------------------------------
\* C1: a given transaction hash occurs in at most one transaction record across all
\* users, under any interleaving of submissions and delayed callbacks.
C1_HashRecordedOnce ==
  \A r1, r2 \in Records : Rec(r1).hash = Rec(r2).hash => r1 = r2

\* C2: when the duplicate-hash lookup of processTransaction (the check it reaches
\* for a user with a pending payment) finds the submitted hash in some user's
\* transactions, the callback ends as DuplicateTransaction: the store is unchanged (no
\* record appended; pendingPayment, subscription and expiresAt of the submitter as
\* they were), no channel admission is attempted and the callback is over.
C2_DuplicateRejected ==
  [][\A t \in TimerIds :
       (timers[t].pc = "dedup" /\ Steps(t) /\ Returned /\ Recorded(timers[t].txHash))
         => /\ last'.outcome = "DuplicateTransaction"
            /\ last'.sent = <<"already_processed">>
            /\ ~last'.admit
            /\ users' = users
            /\ timers'[t].pc = "over"]_vars

\* C2 witness: a hash recorded for one user was refused as a duplicate while another
\* user, with nothing recorded, still holds a pending payment.
C2_Witness ==
  /\ last.outcome = "DuplicateTransaction"
  /\ \E a, b \in Stored :
       /\ a # b
       /\ \E i \in 1..Len(Doc(a).transactions) : Doc(a).transactions[i].hash = HashA
       /\ Doc(b).pendingPayment # <<>>
       /\ Doc(b).transactions = <<>>
       /\ Doc(b).subscription = "none"

\* C3: on accept, one store update sets subscription to the plan of the pending
\* attempt the callback read, sets expiresAt to now plus the plan's months, removes
\* pendingPayment and appends exactly one record with the submitted hash, the
\* attempt's amount, currency and paymentId, the time of the write and status
\* verified; nothing else in the store changes; addChatMember is called in that step,
\* after the write, and in no other step.
C3_Written(t) ==
  timers[t].pc = "update" /\ Steps(t) /\ Returned

C4_OneActivationPerPayment ==
  \A r1, r2 \in Records :
    (Rec(r1).paymentId = Rec(r2).paymentId /\ Rec(r1).hash # Rec(r2).hash) => r1 = r2

\* The text is 64 hexadecimal characters between leading and trailing whitespace, and
\* does not start with "/".
C5_IsHashText(text) ==
  \E lead, trail \in 0..Len(text) :
    /\ lead + 64 + trail = Len(text)
    /\ \A i \in 1..Len(text) :
         IF i <= lead \/ i > lead + 64
           THEN text[i] \in {" ", "\t", "\n"}
           ELSE text[i] \in {"0", "1", "2", "3", "4", "5", "6", "7", "8", "9",
                             "a", "b", "c", "d", "e", "f", "A", "B", "C", "D", "E", "F"}

\* The texts that are not of that form.
C5_OtherTexts == {text \in Texts : ~C5_IsHashText(text)}

\* C5: a message whose trimmed text is not exactly 64 hexadecimal characters, or that
\* starts with "/", is a no-op of the hash handler: no timer is scheduled, no message
\* is sent, no channel call is made and nothing of the store changes.
C5_OtherTextIgnored ==
  [][\A u \in Users, text \in C5_OtherTexts :
       OnMessage(u, text)
         => /\ UNCHANGED <<env, now, users, timers, paymentIds, sweep, overlap, banned,
                         submitted, retry>>
            /\ last'.sent = <<>>
            /\ ~last'.admit]_vars

\* C5 witness: a text was ignored while a hash of the same user waits for its callback.
C5_Witness ==
  /\ last.outcome = "ignored"
  /\ timers[1].pc = "lookup"
  /\ timers[2].pc = "unused"

C7_PendingStored ==
  [][\A u \in Users, d \in Keyboard :
       (HandlePayment(u, d[1], d[2]) /\ last'.outcome = "initiated")
         => /\ users'[u] # <<>>
            /\ users'[u][1].pendingPayment # <<>>
            /\ users'[u][1].pendingPayment[1].plan = d[2]
            /\ users'[u][1].pendingPayment[1].currency = d[1]
            /\ users'[u][1].pendingPayment[1].amount = <<PRICES[d[1]][d[2]]>>]_vars

\* The deployment sets the wallet address of this currency.
C8_WalletConfigured(currency) ==
  \/ currency = "TON" /\ env.TON
  \/ currency = "USDT" /\ env.USDT

\* C8: handlePayment for a currency with no configured wallet never opens a pending
\* payment, whatever the currency string is.
C8_NoWalletNoPending ==
  [][\A u \in Users, d \in CallbackData :
       (HandlePayment(u, d[1], d[2]) /\ ~C8_WalletConfigured(d[1]))
         => users' = users]_vars

\* C9: a plan outside the catalog is never persisted: no pendingPayment carries one,
\* and subscription is one of none, 1month, 3months.
C9_PlansOfCatalog ==
  \A u \in Stored :
    /\ Doc(u).subscription \in {"none", "1month", "3months"}
    /\ Doc(u).pendingPayment # <<>>
         => Doc(u).pendingPayment[1].plan \in {"1month", "3months"}

\* C10: a record holds at most one pendingPayment, and a handlePayment that completes
\* for a stored user replaces the whole attempt: plan, amount and currency are the
\* selected ones, paymentId is the newly generated one and differs from the one of the
\* attempt on file, and nothing else of the store changes.
C10_PendingReplaced ==
  [][\A u \in Users, d \in Keyboard :
       (HandlePayment(u, d[1], d[2]) /\ last'.outcome = "initiated" /\ u \in Stored)
         => /\ users' = [users EXCEPT ![u] =
                 <<[Doc(u) EXCEPT !.pendingPayment =
                      <<[plan |-> d[2], amount |-> <<PRICES[d[1]][d[2]]>>,
                         currency |-> d[1], paymentId |-> paymentIds']>>]>>]
            /\ Doc(u).pendingPayment # <<>>
                 => Doc(u).pendingPayment[1].paymentId # paymentIds']_vars

\* C10 witness: the attempt a callback of user 1 read was replaced by a later one.
C10_Witness ==
  /\ last.outcome = "initiated"
  /\ timers[1].pc = "dedup"
  /\ timers[1].chatId = 1
  /\ timers[1].pendingPayment[1].paymentId = 1
  /\ 1 \in Stored
  /\ Doc(1).pendingPayment # <<>>
  /\ Doc(1).pendingPayment[1].paymentId = 2

-----------------------------------------------------------------------------
\* The step appends to the transactions of the stored user u.
Appends(u) ==
  /\ users[u] # <<>>
  /\ Len(users'[u][1].transactions) > Len(Doc(u).transactions)

\* The step removes the pendingPayment of the stored user u.
RemovesPending(u) ==
  /\ users[u] # <<>>
  /\ Doc(u).pendingPayment # <<>>
  /\ users'[u][1].pendingPayment = <<>>

\* The record the step appended for u.
Appended(u) == users'[u][1].transactions[Len(users'[u][1].transactions)]

\* C11 as stated: every step that appends a transaction record for a user removes
\* that user's pendingPayment in the same step, and a step removes a pendingPayment
\* only when it appends a record.
C11_ClearedWhenRecorded ==
  [][\A u \in Users :
       /\ Appends(u) => users'[u][1].pendingPayment = <<>>
       /\ RemovesPending(u) => Appends(u)]_vars

\* C11 amended: every step that appends a record with status verified or completed
\* removes the pendingPayment in the same step; a step that appends a record with
\* status awaiting_manual_check leaves the pendingPayment as it was; and a
\* pendingPayment is removed only by a step that appends a verified or completed
\* record, so no failing step removes it.
C11_ClearedWhenActivated ==
  [][\A u \in Users :
       /\ (Appends(u) /\ Appended(u).status \in {"verified", "completed"})
            => users'[u][1].pendingPayment = <<>>
       /\ (Appends(u) /\ Appended(u).status = "awaiting_manual_check")
            => users'[u][1].pendingPayment = Doc(u).pendingPayment
       /\ RemovesPending(u)
            => /\ Appends(u)
               /\ Appended(u).status \in {"verified", "completed"}
               /\ last'.admit]_vars

\* C11 witness: an on-chain activation recorded the hash and cleared the pending
\* payment of a user who already had a record under manual review.
C11_Witness ==
  /\ last.outcome = "activated"
  /\ \E u \in Stored :
       /\ Doc(u).pendingPayment = <<>>
       /\ Len(Doc(u).transactions) = 2
       /\ Doc(u).transactions[1].status = "awaiting_manual_check"
       /\ Doc(u).transactions[2].status = "completed"

\* C12: when verifyTONTransaction returned false for the hash of a TON payment, the
\* handler stores nothing: no record with that hash, and pendingPayment, subscription
\* and expiresAt as they were, so that the hash can be submitted again.  A handler of
\* a TON payment is past the duplicate lookup and not on the accept branch exactly
\* when verifyTONTransaction returned false.
C12_FailedVerificationStoresNothing ==
  [][\A t \in TimerIds :
       (/\ timers[t].pc \notin {"unused", "over", "dedup", "accept"}
        /\ timers[t].pendingPayment[1].currency = "TON"
        /\ Steps(t))
         => /\ users' = users
            /\ \A u \in Users : users'[u] # <<>> =>
                 \A i \in 1..Len(users'[u][1].transactions) :
                   users'[u][1].transactions[i].hash # timers[t].txHash]_vars

\* C13: the manual-review step for a currency other than TON, when its write went
\* through, appends exactly one record with the hash, the amount and currency of the
\* pending payment and status awaiting_manual_check, changes nothing else in the
\* store (subscription and expiresAt as they were), calls no addChatMember, sends the
\* operator the user, amount, currency and plan, and tells the user the payment is
\* under review; and no step ever changes a record that is stored, so no record is
\* promoted.
C13_ManualReview ==
  [][/\ \A t \in TimerIds :
          (/\ timers[t].pc = "review" /\ Steps(t)
           /\ last'.outcome # "UnhandledRejection"
           /\ timers[t].pendingPayment[1].currency # "TON")
            => LET u == timers[t].chatId
                   attempt == timers[t].pendingPayment[1]
               IN
               /\ u \in Stored
               /\ users' = [users EXCEPT ![u] =
                    <<[Doc(u) EXCEPT !.transactions =
                         Doc(u).transactions \o
                           <<[hash |-> timers[t].txHash, amount |-> attempt.amount,
                              currency |-> attempt.currency,
                              status |-> "awaiting_manual_check",
                              timestamp |-> now]>>]>>]
               /\ ~last'.admit
               /\ last'.sent = <<"under_review">>
               /\ last'.notice = <<[userId |-> u, amount |-> attempt.amount,
                                    currency |-> attempt.currency, plan |-> attempt.plan,
                                    txHash |-> timers[t].txHash]>>
     /\ \A u \in Stored :
          /\ users'[u] # <<>>
          /\ \A i \in 1..Len(Doc(u).transactions) :
               users'[u][1].transactions[i] = Doc(u).transactions[i]]_vars

\* C13 witness: a USDT hash of a user without subscription is under review.
C13_Witness ==
  /\ last.outcome = "under_review"
  /\ last.notice # <<>>
  /\ last.notice[1].currency = "USDT"
  /\ last.notice[1].plan = "1month"
  /\ \E u \in Stored :
       /\ last.notice[1].userId = u
       /\ Doc(u).subscription = "none"
       /\ Doc(u).expiresAt = <<>>
       /\ Len(Doc(u).transactions) = 1
       /\ Doc(u).transactions[1].status = "awaiting_manual_check"

\* The months a plan of the catalog pays for.
Duration(plan) == IF plan = "1month" THEN 1 ELSE IF plan = "3months" THEN 3 ELSE 0

\* C14: in every reachable state, a user whose subscription is not none has
\* expiresAt set, and it is the time of the user's latest activation (the timestamp
\* of the last record) plus 1 month for 1month and 3 months for 3months.
C14_ExpiryOfLatestActivation ==
  \A u \in Stored :
    Doc(u).subscription # "none" =>
      /\ Doc(u).subscription \in {"1month", "3months"}
      /\ Doc(u).transactions # <<>>
      /\ Doc(u).expiresAt =
           <<Doc(u).transactions[Len(Doc(u).transactions)].timestamp
               + Duration(Doc(u).subscription)>>

\* C14 witness: a user activated 1month and later, at time 1, 3months.
C14_Witness ==
  \E u \in Stored :
    /\ Doc(u).subscription = "3months"
    /\ Doc(u).expiresAt = <<4>>
    /\ Len(Doc(u).transactions) = 2
    /\ Doc(u).transactions[1].currency = "USDT"
    /\ Doc(u).transactions[2].timestamp = 1

\* C15: when an activation is written for a user whose subscription is still active
\* (not none, expiresAt later than now), the new expiresAt is the current expiresAt
\* plus the months of the plan; otherwise it is now plus the months of the plan.
\* Stated for the activations whose pending payment is still the one on file, which
\* leaves aside two callbacks consuming one payment.
C15_RenewalExtends ==
  [][\A t \in TimerIds :
       (/\ C3_Written(t)
        /\ Doc(timers[t].chatId).pendingPayment = timers[t].pendingPayment) =>
         LET u == timers[t].chatId
             months == Duration(timers[t].pendingPayment[1].plan)
             active == /\ Doc(u).subscription # "none"
                       /\ Doc(u).expiresAt # <<>>
                       /\ Doc(u).expiresAt[1] > now
         IN
         users'[u][1].expiresAt =
           <<(IF active THEN Doc(u).expiresAt[1] ELSE now) + months>>]_vars

\* addChatMember threw an error other than the one of a user who is in the channel.
ChannelFailed(answer) ==
  /\ answer.threw
  /\ \/ answer.description = <<>>
     \/ \A i \in 1..Len(answer.description[1]) :
          answer.description[1][i] # "USER_ALREADY_PARTICIPANT"

\* C16: when the activation write went through and addChatMember then fails, the
\* user has subscription = plan, the new expiresAt, no pendingPayment and the record
\* of the hash, and is sent the contact-support message, not the success message.
C16_ChannelFailureKeepsActivation ==
  [][\A t \in TimerIds, answer \in ChannelAnswers :
       (Activate(t, 0, answer) /\ ChannelFailed(answer)) =>
         LET u == timers[t].chatId
             attempt == timers[t].pendingPayment[1]
             doc == users'[u][1]
         IN
         /\ users'[u] # <<>>
         /\ doc.subscription = attempt.plan
         /\ doc.expiresAt = <<now + Duration(attempt.plan)>>
         /\ doc.pendingPayment = <<>>
         /\ Len(doc.transactions) = Len(Doc(u).transactions) + 1
         /\ doc.transactions[Len(doc.transactions)].hash = timers[t].txHash
         /\ doc.transactions[Len(doc.transactions)].status = "verified"
         /\ last'.sent = <<"verified_contact_support">>
         /\ timers'[t].pc = "over"]_vars

\* C16 witness: a user is activated and was told to contact support.
C16_Witness ==
  /\ last.outcome = "SUBSCRIPTION_ACTIVATED_NO_CHANNEL"
  /\ last.sent = <<"verified_contact_support">>
  /\ \E u \in Stored :
       /\ Doc(u).subscription = "3months"
       /\ Doc(u).expiresAt = <<3>>
       /\ Doc(u).pendingPayment = <<>>
       /\ Len(Doc(u).transactions) = 1

\* C17: for every answer of addChatMember, addToChannel returns a result (the
\* callback goes on to its closing message) whose success is true exactly when the
\* call resolved or threw the error of a user who is in the channel already; for every
\* other error the result is a failure that carries the message of the error.
C17_AdmitResult ==
  [][\A t \in TimerIds, answer \in ChannelAnswers :
       Activate(t, 0, answer) =>
         /\ addToChannel(answer).success \in BOOLEAN
         /\ addToChannel(answer).success = ~ChannelFailed(answer)
         /\ ChannelFailed(answer) => addToChannel(answer).error = <<answer.message>>
         /\ ~ChannelFailed(answer) => addToChannel(answer).error = <<>>
         /\ last'.outcome = IF ChannelFailed(answer)
                              THEN "SUBSCRIPTION_ACTIVATED_NO_CHANNEL"
                              ELSE "SUBSCRIPTION_ACTIVATED"
         /\ last'.admit]_vars

\* C17 witness: both users were admitted, each by one callback.
C17_Witness ==
  /\ last.outcome = "SUBSCRIPTION_ACTIVATED"
  /\ last.sent = <<"verified_added">>
  /\ \A t \in TimerIds : timers[t].pc = "over"
  /\ \A u \in Users :
       /\ u \in Stored
       /\ Len(Doc(u).transactions) = 1

-----------------------------------------------------------------------------
\* The users a run of the sweeper still has to process.
Selected == {sweep.expiredUsers[i] : i \in 1..Len(sweep.expiredUsers)}

\* The user is past expiry with a subscription.
Expired(u) ==
  /\ users[u] # <<>>
  /\ Doc(u).expiresAt # <<>>
  /\ Doc(u).expiresAt[1] < now
  /\ Doc(u).subscription # "none"

\* C18: the find of a sweep selects exactly the users with expiresAt < now and
\* subscription other than none, each once; for a selected user, with every call
\* succeeding, the sweep calls banChatMember and unbanChatMember, sets subscription
\* to none and sends the expiry notification; after that the user does not match the
\* selection, so the find of a second run does not select the user; and a run calls
\* the channel and writes for the users it selected only.
C18_Sweep ==
  [][/\ (last'.outcome = "CLEANUP" /\ sweep.pc = "idle")
          => /\ {sweep'.expiredUsers[i] : i \in 1..Len(sweep'.expiredUsers)}
                  = {u \in Users : Expired(u)}
             /\ Len(sweep'.expiredUsers) = Cardinality({u \in Users : Expired(u)})
             /\ users' = users
             /\ last'.revoke = <<>> /\ last'.sent = <<>>
     /\ SweepUser("none")
          => LET u == Head(sweep.expiredUsers) IN
             /\ last'.revoke = <<"banChatMember", "unbanChatMember">>
             /\ users'[u][1].subscription = "none"
             /\ last'.sent = <<"expired">>
             /\ ~(/\ users'[u][1].expiresAt # <<>>
                  /\ users'[u][1].expiresAt[1] < now'
                  /\ users'[u][1].subscription # "none")
     /\ last'.revoke # <<>>
          => /\ sweep.pc = "users"
             /\ \A v \in Users \ {Head(sweep.expiredUsers)} : users'[v] = users[v]]_vars

\* C18 witness: the find of a second run selected nobody although a user, expired by
\* the run before, is past expiry.
C18_Witness ==
  /\ last.outcome = "CLEANUP"
  /\ sweep = Idle
  /\ \E u \in Stored :
       /\ Doc(u).subscription = "none"
       /\ Doc(u).expiresAt # <<>>
       /\ Doc(u).expiresAt[1] < now

\* C19: within a run, a selected user leaves the run only by being processed (the
\* sweep reached the user and called banChatMember for it), whatever call threw for
\* the users before; a throwing call leaves the rest of the selection in the run, and
\* the sweeper is then in a run or waiting for its next run.
C19_SweepIsolation ==
  [][/\ \A u \in Selected :
          u \notin {sweep'.expiredUsers[i] : i \in 1..Len(sweep'.expiredUsers)}
            => /\ u = Head(sweep.expiredUsers)
               /\ last'.revoke # <<>>
               /\ last'.outcome \in {"SUBSCRIPTION_EXPIRED", "CLEANUP_FAILED"}
     /\ \A fault \in SweepFaults \ {"none"} :
          SweepUser(fault)
            => sweep' = IF Tail(sweep.expiredUsers) = <<>> THEN Idle
                        ELSE [pc |-> "users", expiredUsers |-> Tail(sweep.expiredUsers)]
     /\ sweep'.pc \in {"idle", "users"}]_vars

\* C19 witness: a run failed for user 1 and then expired user 2.
C19_Witness ==
  /\ last.outcome = "SUBSCRIPTION_EXPIRED"
  /\ sweep = Idle
  /\ Expired(1)
  /\ 2 \in Stored
  /\ Doc(2).subscription = "none"
  /\ Doc(2).expiresAt # <<>>

\* C20: a step of the sweeper changes nothing of the store or sets the subscription
\* of the user it processes to none and nothing else: expiresAt, transactions and
\* pendingPayment of that user, and every other user, are as they were.
C20_ExpireFrame ==
  [][\A fault \in SweepFaults :
       SweepUser(fault) =>
         LET u == Head(sweep.expiredUsers) IN
         /\ u \in Stored
         /\ \/ users' = users
            \/ users' = [users EXCEPT ![u] =
                 <<[subscription |-> "none",
                    expiresAt |-> Doc(u).expiresAt,
                    pendingPayment |-> Doc(u).pendingPayment,
                    transactions |-> Doc(u).transactions]>>]
         /\ last'.outcome = "SUBSCRIPTION_EXPIRED" => users'[u][1].subscription = "none"]_vars

\* C20 witness: a user with a record and a new pending payment was expired.
C20_Witness ==
  /\ last.outcome = "SUBSCRIPTION_EXPIRED"
  /\ \E u \in Stored :
       /\ Doc(u).subscription = "none"
       /\ Doc(u).expiresAt = <<1>>
       /\ Len(Doc(u).transactions) = 1
       /\ Doc(u).pendingPayment # <<>>

-----------------------------------------------------------------------------
\* C21: the sweeper runs from the start of the process on, so that a user who is
\* past expiry with a subscription other than none is in the end no longer so: the
\* subscription was set to none (or a payment gave it a later expiry).
C21_ExpiredEventuallyNone ==
  \A u \in Users : Expired(u) ~> ~Expired(u)

-----------------------------------------------------------------------------
\* C22 as stated: when a pendingPayment A was on file at the time a hash was sent,
\* the activation of its delayed callback is that of A (plan and paymentId), also
\* when the user opened another pending payment B before the timer fired.
C22_OriginalAttemptActivated ==
  [][\A t \in TimerIds :
       (C3_Written(t) /\ submitted[t] # <<>>) =>
         LET u == timers[t].chatId IN
         /\ users'[u][1].subscription = submitted[t][1].plan
         /\ Appended(u).paymentId = submitted[t][1].paymentId]_vars

\* C22 amended: the timer, when it fires, reads the pendingPayment that is on file
\* then; when that is a payment B opened after the hash was sent while A was
\* pending, the activation is that of B: B's plan becomes the subscription and the
\* record carries B's paymentId, not A's.
C22_LatestAttemptActivated ==
  [][\A t \in TimerIds :
       LET u == timers[t].chatId IN
       /\ (timers[t].pc = "lookup" /\ timers'[t].pc = "dedup" /\ submitted[t] # <<>>)
            => timers'[t].pendingPayment = Doc(u).pendingPayment
       /\ (C3_Written(t) /\ submitted[t] # <<>> /\ timers[t].pendingPayment # submitted[t])
            => /\ users'[u][1].subscription = timers[t].pendingPayment[1].plan
               /\ Appended(u).paymentId = timers[t].pendingPayment[1].paymentId
               /\ Appended(u).paymentId # submitted[t][1].paymentId]_vars

\* C22 witness: the one user of the store sent a hash with USDT 1month pending
\* (payment 1), opened TON 3months (payment 2) and was activated for 3months.
C22_Witness ==
  /\ last.admit
  /\ timers[1].pc = "over"
  /\ timers[2].pc = "unused"
  /\ submitted[1] # <<>>
  /\ submitted[1][1].plan = "1month"
  /\ submitted[1][1].paymentId = 1
  /\ \E u \in Users :
       /\ Stored = {u}
       /\ Doc(u).subscription = "3months"
       /\ Len(Doc(u).transactions) = 1
       /\ Doc(u).transactions[1].paymentId = 2
       /\ Doc(u).transactions[1].currency = "TON"

\* C23: the delayed callback works on the pendingPayment the user has when the timer
\* fires, whatever was on file when the hash was sent: with none on file at that
\* moment it activates nothing; otherwise the plan activated and the amount, currency
\* and paymentId recorded are those of that pendingPayment.
C23_PendingWhenTimerFires ==
  [][\A t \in TimerIds :
       LET u == timers[t].chatId IN
       /\ (timers[t].pc = "lookup" /\ Steps(t) /\ Returned) =>
            IF u \notin Stored \/ Doc(u).pendingPayment = <<>>
              THEN timers'[t].pc = "over" /\ users' = users
              ELSE /\ timers'[t].pc = "dedup"
                   /\ timers'[t].pendingPayment = Doc(u).pendingPayment
       /\ C3_Written(t) =>
            LET fired == timers[t].pendingPayment[1] IN
            /\ users'[u][1].subscription = fired.plan
            /\ Appended(u).amount = fired.amount
            /\ Appended(u).currency = fired.currency
            /\ Appended(u).paymentId = fired.paymentId]_vars

\* C23 witness: a hash sent with no pending payment on file was activated for the
\* payment opened afterwards.
C23_Witness ==
  /\ last.admit
  /\ timers[1].pc = "over"
  /\ timers[2].pc = "unused"
  /\ submitted[1] = <<>>
  /\ \E u \in Users :
       /\ Stored = {u}
       /\ Doc(u).subscription # "none"
       /\ Len(Doc(u).transactions) = 1

-----------------------------------------------------------------------------
\* C24: no exception of the store or of Telegram leaves the message handler or its
\* delayed callback: a step in which such a call threw ends with the generic failure
\* message sent to the user, never as a rejection nobody handles, and it changes
\* neither the store nor the callbacks of other submissions.
C24_NoRejectionEscapes ==
  [][last'.outcome \in {"TransientFailure", "UnhandledRejection"} =>
       /\ last'.outcome = "TransientFailure"
       /\ last'.sent = <<"verification_failed">>
       /\ users' = users
       /\ \A t \in TimerIds : Steps(t) => timers'[t].pc = "over"]_vars

-----------------------------------------------------------------------------
\* C25: each store access of processTransaction (the user lookup, the duplicate
\* lookup, the activation write) is tried again after a failure: when it fails fewer
\* times in a row than the bound of the retries, the step does not end as a failure.
C25_StoreAccessRetried ==
  [][\A t \in TimerIds, failures \in TransactionFailures :
       failures < MAX_RETRIES =>
         /\ FindUser(t, failures) => Returned
         /\ FindExisting(t, failures) => Returned
         /\ \A answer \in ChannelAnswers : Activate(t, failures, answer) => Returned]_vars

-----------------------------------------------------------------------------
\* C26: the status shown to a user whose subscription is not none gives, for an
\* expiresAt that is not in the past, the days remaining as the least number of days
\* that covers expiresAt - now, and for an expiresAt in the past it is shown as
\* expired with 0 days; the days are never negative; and the step writes nothing.
C26_StatusOf ==
  [][last'.status # <<>> =>
       LET r == last'.status[1]
           left == r.expiresAt - r.at
       IN
       /\ users' = users
       /\ users[r.userId] # <<>>
       /\ Doc(r.userId).subscription # "none"
       /\ r.expiresAt = getTime(Doc(r.userId).expiresAt[1])
       /\ r.daysLeft >= 0
       /\ IF left < 0
            THEN r.expired /\ r.daysLeft = 0
            ELSE /\ ~r.expired
                 /\ r.daysLeft * DayHours >= left
                 /\ (r.daysLeft - 1) * DayHours < left]_vars


-----------------------------------------------------------------------------
\* C27: verifyTONTransaction answers true or false for every answer of the
\* explorer, and true only when the lookup succeeded, the destination of the
\* transaction is the configured wallet address and the value is less than 0.01 TON
\* (10 thousandths) away from the expected amount; and the handler of a TON payment
\* goes to the activation only when it answered true, an activation of a TON payment
\* being written on that branch only.
C27_VerifierFailsClosed ==
  [][\A t \in TimerIds :
       /\ \A response \in Responses :
            (/\ P1_Verify(t, FALSE, response)
             /\ last'.outcome = "fresh"
             /\ timers[t].pendingPayment[1].currency = "TON") =>
              LET expected == timers[t].pendingPayment[1].amount[1] * 1000
                  accepted == verifyTONTransaction(response,
                                timers[t].pendingPayment[1].amount[1], TON_WALLET_ADDRESS)
              IN
              /\ accepted \in BOOLEAN
              /\ timers'[t].pc = "accept" <=> accepted
              /\ accepted =>
                   /\ ~response.threw
                   /\ response.ok
                   /\ response.destination = <<TON_WALLET_ADDRESS>>
                   /\ response.value - expected < 10
                   /\ expected - response.value < 10
       /\ (Steps(t) /\ last'.admit) => timers[t].pc = "accept"]_vars

-----------------------------------------------------------------------------
\* C28: in the sweeper every banChatMember that succeeded is followed at once by an
\* unbanChatMember, and no user is left banned from the channel once the sweeper is
\* done with them: the activation of a later payment never asks the channel to admit
\* a user whom a sweep left banned.
C28_RevokeDoesNotBlock ==
  [][/\ \A fault \in SweepFaults \ {"banChatMember"} :
          SweepUser(fault) => last'.revoke = <<"banChatMember", "unbanChatMember">>
     /\ \A t \in TimerIds, failures \in TransactionFailures, answer \in ChannelAnswers :
          (Activate(t, failures, answer) /\ last'.admit) =>
            timers[t].chatId \notin banned]_vars

\* The part of C28 about the order of the calls alone.
UnbanFollowsBan ==
  [][\A fault \in SweepFaults \ {"banChatMember"} :
       SweepUser(fault) => last'.revoke = <<"banChatMember", "unbanChatMember">>]_vars

\* A sweep's unbanChatMember that succeeded leaves the user it removed unbanned.
UnbannedAfterRevoke ==
  [][SweepUser("none") => Head(sweep.expiredUsers) \notin banned']_vars

-----------------------------------------------------------------------------
\* What one run of the sweeper does to the store when it comes to user u: nothing
\* when a call before the save or the save itself throws, else it sets the
\* subscription of u to none and leaves expiresAt, pendingPayment and transactions
\* as they are; when the subscription is none already it changes nothing at all;
\* the documents of the other users stay as they are.
ExpiredOnce(u, fault) ==
  /\ u \in Stored
  /\ \A v \in Users \ {u} : users'[v] = users[v]
  /\ users'[u] # <<>>
  /\ users'[u][1].expiresAt = Doc(u).expiresAt
  /\ users'[u][1].pendingPayment = Doc(u).pendingPayment
  /\ users'[u][1].transactions = Doc(u).transactions
  /\ fault \in {"banChatMember", "unbanChatMember", "save"} => users' = users
  /\ fault \in {"none", "sendMessage"} => users'[u][1].subscription = "none"
  /\ AlreadyNone(u) => users' = users

\* What the step of a run on user u leaves of the revoke of the other run: a user
\* whose subscription the other run has set to none, and whom it left unbanned, is
\* not banned afterwards.
RevokedOnce(u) == (AlreadyNone(u) /\ u \notin banned) => u \notin banned'

\* The store after two runs that selected the same user is the store after one run.
StoreIdempotent ==
  [][\A fault \in SweepFaults :
       /\ SweepUser(fault) =>
            ExpiredOnce(Head(sweep.expiredUsers), fault) /\ overlap' = overlap
       /\ OverlapUser(fault) =>
            ExpiredOnce(Head(overlap.expiredUsers), fault) /\ sweep' = sweep]_vars

\* C29: two runs of the sweeper that selected the same expired user leave things as
\* one run does: each run's step on the user sets the subscription to none and keeps
\* expiresAt and transactions, the step of the run that comes second changes nothing,
\* and a step that fails changes neither the store, nor the list of the other run,
\* nor what the other run has done for the user in the channel.
C29_OverlappingSweepsIdempotent ==
  [][\A fault \in SweepFaults :
       /\ SweepUser(fault) =>
            /\ ExpiredOnce(Head(sweep.expiredUsers), fault)
            /\ RevokedOnce(Head(sweep.expiredUsers))
            /\ overlap' = overlap
       /\ OverlapUser(fault) =>
            /\ ExpiredOnce(Head(overlap.expiredUsers), fault)
            /\ RevokedOnce(Head(overlap.expiredUsers))
            /\ sweep' = sweep]_vars

\* A run has expired a user whose subscription the other run had set to none after
\* both had selected them; the expiry date and the transaction are still on file.
BothRunsExpired ==
  /\ last.already
  /\ last.outcome = "SUBSCRIPTION_EXPIRED"
  /\ \E u \in Stored :
       /\ Doc(u).subscription = "none"
       /\ Doc(u).expiresAt # <<>>
       /\ Doc(u).expiresAt[1] < now
       /\ Doc(u).transactions # <<>>

\* Without overlapping runs a banned user is one whose subscription is still to be
\* expired: the next run takes them again.
BannedNotNone == \A u \in banned : u \in Stored => Doc(u).subscription # "none"

\* A single run never comes to a user whose subscription is none already.
SingleRunNeverAlready == ~last.already

-----------------------------------------------------------------------------
\* C30: the transactions of a user are append-only: no step removes a stored user,
\* and the transactions a user has before a step are, record by record and in the
\* same order, the beginning of the transactions the user has after it, which are
\* at most one record longer.
C30_TransactionsAppendOnly ==
  [][\A u \in Stored :
       /\ users'[u] # <<>>
       /\ Len(users'[u][1].transactions) \in
            {Len(Doc(u).transactions), Len(Doc(u).transactions) + 1}
       /\ \A i \in 1..Len(Doc(u).transactions) :
            users'[u][1].transactions[i] = Doc(u).transactions[i]]_vars

\* C30 witness: a sweep has expired a user with two transaction records, the record
\* of the first payment before the record of the second.
C30_Witness ==
  /\ last.outcome = "SUBSCRIPTION_EXPIRED"
  /\ \E u \in Stored :
       /\ Doc(u).subscription = "none"
       /\ Len(Doc(u).transactions) = 2
       /\ Doc(u).transactions[1].paymentId < Doc(u).transactions[2].paymentId

-----------------------------------------------------------------------------
\* The paid period of user u is not over: the expiry date on file is not in the past.
PaidUp(u) == u \in Stored /\ Doc(u).expiresAt # <<>> /\ ~(Doc(u).expiresAt[1] < now)

\* C31: the sweeper never demotes a paid-up user: a run that comes to a user whose
\* activation was written after the run selected them makes no call to the channel
\* for them and leaves their document as it is, and in every state a user whose
\* expiry date is not in the past has a subscription other than none.
C31_SweepSparesPaidUp ==
  /\ [](\A u \in Users : PaidUp(u) => Doc(u).subscription # "none")
  /\ [][\A fault \in SweepFaults :
          (SweepUser(fault) /\ PaidUp(Head(sweep.expiredUsers))) =>
            /\ users' = users
            /\ banned' = banned
            /\ last'.revoke = <<>>]_vars

-----------------------------------------------------------------------------
\* The step is the end of the delayed callback t whose activation was written: the
\* user of the callback has the plan of the payment and no pending payment.
ActivationWritten(t) ==
  LET u == timers[t].chatId IN
  /\ timers[t].pc = "update"
  /\ timers'[t] = Over
  /\ users'[u] # <<>>
  /\ users'[u][1].subscription = timers[t].pendingPayment[1].plan
  /\ users'[u][1].expiresAt # <<>>
  /\ users'[u][1].pendingPayment = <<>>

\* C32: the bot asks the channel to add a user only in the step that wrote the
\* activation of a payment of that user; no command or callback else does.
C32_AdmissionGatedByPayment ==
  [][last'.admit => \E t \in TimerIds : ActivationWritten(t)]_vars

-----------------------------------------------------------------------------
\* C33: a run of the sweeper takes a user in the order ban, unban, set the
\* subscription to none, notify: the subscription is set to none only after both
\* channel calls succeeded; when the ban or the unban throws the document stays as it
\* is and the user, if expired, is still one the next run selects; a notification
\* that fails leaves the expiry written.
C33_SweepStepOrder ==
  [][\A fault \in SweepFaults :
       SweepUser(fault) =>
         LET u == Head(sweep.expiredUsers) IN
         /\ last'.revoke = IF fault = "banChatMember" THEN <<"banChatMember">>
                           ELSE <<"banChatMember", "unbanChatMember">>
         /\ users'[u] # users[u] =>
              /\ fault \notin {"banChatMember", "unbanChatMember"}
              /\ users'[u][1].subscription = "none"
         /\ fault \in {"banChatMember", "unbanChatMember"} =>
              /\ users' = users
              /\ last'.outcome = "CLEANUP_FAILED"
              /\ Expired(u) => u \in {find(now, 1)[i] : i \in 1..Len(find(now, 1))}'
         /\ fault = "sendMessage" =>
              /\ users'[u][1].subscription = "none"
              /\ last'.outcome = "SUBSCRIPTION_EXPIRED"
              /\ last'.sent = <<>>
         /\ fault = "none" =>
              /\ users'[u][1].subscription = "none"
              /\ last'.sent = <<"expired">>]_vars

\* C33 witness: the ban threw for the only user of a run; the run is over and the
\* user, not banned, is still expired with the plan on file.
C33_Witness ==
  /\ last.outcome = "CLEANUP_FAILED"
  /\ last.revoke = <<"banChatMember">>
  /\ sweep = Idle
  /\ banned = {}
  /\ \E u \in Users : Expired(u) /\ find(now, 1) = <<u>>

-----------------------------------------------------------------------------
\* The call of retryOperation is over.
RetryOver == retry.pc \in {"returned", "threw"}

\* The number of calls that throw before the first call that resolves.
RECURSIVE failuresBefore(_, _)
failuresBefore(outcomes, k) ==
  IF k > Len(outcomes) \/ outcomes[k] THEN 0 ELSE 1 + failuresBefore(outcomes, k + 1)

\* The outcome of retryOperation as the handlers take it is the outcome of its loop.
RetryAgrees ==
  (RetryOver /\ retry.maxRetries >= 1) =>
    LET r == retryOperation(failuresBefore(retry.outcomes, 1), retry.maxRetries) IN
    /\ r.threw <=> retry.pc = "threw"
    /\ r.calls = retry.calls

\* C34: retryOperation ends for every operation and every maxRetries; it calls the
\* operation at most maxRetries times; it returns the value of the first call that
\* resolves and makes no call after it; when maxRetries calls have thrown it throws
\* the error of the last of them; and after the k-th call has thrown it waits
\* RETRY_DELAY * k before the next call.
C34_RetryTerminates ==
  /\ <>RetryOver
  /\ [](/\ retry.calls <= retry.maxRetries
        /\ retry.waited = [k \in 1..Len(retry.waited) |-> RETRY_DELAY * k]
        /\ Len(retry.waited) = IF retry.pc = "loop" \/ retry.calls = 0
                                 THEN retry.calls ELSE retry.calls - 1
        /\ \A k \in 1..retry.calls : k < retry.calls => ~retry.outcomes[k]
        /\ (retry.pc = "returned" /\ retry.maxRetries >= 1) =>
             /\ retry.calls >= 1
             /\ retry.outcomes[retry.calls]
             /\ retry.result = <<retry.calls>>
        /\ retry.pc = "threw" =>
             /\ retry.calls = retry.maxRetries
             /\ ~retry.outcomes[retry.calls]
             /\ retry.result = <<retry.maxRetries>>)
  /\ [][RetryOver => retry' = retry]_vars

\* C34 witness: with the default of three attempts an operation that throws three
\* times was called three times, with waits of 2000 and 4000 between the calls, and
\* its third error was thrown.
C34_Witness ==
  /\ retry.pc = "threw"
  /\ retry.maxRetries = MAX_RETRIES
  /\ retry.calls = 3
  /\ retry.waited = <<RETRY_DELAY, 2 * RETRY_DELAY>>
  /\ retry.result = <<3>>

====
